---------------------------- MODULE Spec2Model ----------------------------
(***************************************************************************)
(* A model of csv-pipeline: the Headers, the multi-source chain            *)
(* (PipelinesChain), the group-reduce stage (TransformInto) with its       *)
(* reducers, the row stages (AddCol, MapRow, MapCol, Filter, Select,       *)
(* Validate, ValidateCol, Flush), the Pipeline methods that attach them    *)
(* and the terminal operations run and next_error.                         *)
(*                                                                         *)
(* Values.  An Option is a sequence of length 0 (None) or 1 (Some).  A     *)
(* column name is a string.  A data field is a sequence of one-character   *)
(* strings, so that parsing a field to a number and printing a number as   *)
(* a field are computed digit by digit.  A Row is a sequence of fields (a  *)
(* header row is a sequence of names).  A RowResult is <<"Ok", row>> or    *)
(* <<"Err", error, source>>.                                               *)
(***************************************************************************)
EXTENDS Integers, Sequences, FiniteSets, TLC

VARIABLES
    sources,    \* the source pipelines handed to Pipeline::from_pipelines
    reducers,   \* what the get_transformers closure declares (group stage)
    chain,      \* the PipelinesChain iterator pulled by the consumer
    chainOut,   \* what each pull on the chain returned, oldest first
    ti,         \* the TransformInto iterator pulled by the consumer
    tiOut,      \* what each pull on the TransformInto returned
    hdr,        \* a Headers value that push_field and rename are called on
    hcall,      \* the last call made on hdr, with what it returned
    pl,         \* a Pipeline that stages are attached to and that is then pulled
    program,    \* the method calls made on pl so far, oldest first
    plOut       \* what each pull or terminal call on pl returned and consumed

vars == <<sources, reducers, chain, chainOut, ti, tiOut, hdr, hcall, pl, program, plOut>>
headerVars == <<hdr, hcall>>
pipeVars == <<pl, program, plOut>>

(***************************************************************************)
(* Bounds of the model.                                                    *)
(***************************************************************************)
MaxRows == 3
MaxSources == 3
ExtraPulls == 2

(***************************************************************************)
(* Generic helpers.                                                        *)
(***************************************************************************)
None == <<>>
Some(v) == <<v>>

SeqsUpTo(S, n) == UNION {[1..k -> S] : k \in 0..n}

RECURSIVE Concat(_)
Concat(ss) == IF ss = <<>> THEN <<>> ELSE Head(ss) \o Concat(Tail(ss))

(***************************************************************************)
(* lib.rs: RowResult, PlError, Error.                                      *)
(***************************************************************************)
Ok(row) == <<"Ok", row>>
Err(error, source) == <<"Err", error, source>>
IsOk(item) == item[1] = "Ok"
IsErr(item) == item[1] = "Err"

MissingColumn(name) == <<"MissingColumn", name>>
DuplicateColumn(name) == <<"DuplicateColumn", name>>
InvalidField(field) == <<"InvalidField", field>>
MismatchedHeaders(h1, h2) == <<"MismatchedHeaders", h1, h2>>
CsvError(id) == <<"Csv", id>>

\* Error::at_source
at_source(error, source) == Err(error, source)

(***************************************************************************)
(* headers.rs: Headers { indexes: BTreeMap<String, usize>, row: Row }.     *)
(* Indexes are 0-based as in the source; a Row is read at index + 1.       *)
(***************************************************************************)
Headers_new == [indexes |-> <<>>, row |-> <<>>]

\* csv::StringRecord::get
RowGet(row, index) == IF index + 1 \in 1..Len(row) THEN Some(row[index + 1]) ELSE None

\* Headers::push_field: [added, headers]
push_fieldIndexAfter(h, name) ==
    IF name \in DOMAIN h.indexes
    THEN [added |-> FALSE, headers |-> h]
    ELSE [added |-> TRUE,
          headers |-> [indexes |-> (name :> Len(h.row) + 1) @@ h.indexes,
                       row |-> Append(h.row, name)]]
push_field(h, name) ==
    IF name \in DOMAIN h.indexes
    THEN [added |-> FALSE, headers |-> h]
    ELSE [added |-> TRUE,
          headers |-> [indexes |-> (name :> Len(h.row)) @@ h.indexes,
                       row |-> Append(h.row, name)]]

get_index(h, name) == IF name \in DOMAIN h.indexes THEN Some(h.indexes[name]) ELSE None

get_fieldOneBased(h, row, name) ==
    IF name \in DOMAIN h.indexes THEN RowGet(row, h.indexes[name] - 1) ELSE None
get_field(h, row, name) ==
    IF name \in DOMAIN h.indexes THEN RowGet(row, h.indexes[name]) ELSE None

get_row(h) == h.row

\* Headers::from_row: [ok, headers, dup]
RECURSIVE from_row_loop(_, _)
from_row_loop(header, rest) ==
    IF rest = <<>> THEN [ok |-> TRUE, headers |-> header, dup |-> None]
    ELSE LET r == push_field(header, Head(rest)) IN
         IF ~r.added THEN [ok |-> FALSE, headers |-> header, dup |-> Some(Head(rest))]
         ELSE from_row_loop(r.headers, Tail(rest))

from_row(row) == from_row_loop(Headers_new, row)

\* RenameError
RenameError_DuplicateColumn(index) == <<"DuplicateColumn", index>>
RenameError_MissingColumn == <<"MissingColumn">>

\* BTreeMap::remove: [removed, map]
MapRemove(map, key) ==
    IF key \in DOMAIN map
    THEN [removed |-> Some(map[key]), map |-> [k \in DOMAIN map \ {key} |-> map[k]]]
    ELSE [removed |-> None, map |-> map]

\* Headers::rename: [ok, headers, err]
renameNoRemove(h, from, to) ==
    IF get_index(h, to) # None
    THEN [ok |-> FALSE, headers |-> h,
          err |-> Some(RenameError_DuplicateColumn(get_index(h, to)[1]))]
    ELSE LET r == MapRemove(h.indexes, from) IN
         IF r.removed = None
         THEN [ok |-> FALSE, headers |-> h, err |-> Some(RenameError_MissingColumn)]
         ELSE LET index == r.removed[1] IN
              [ok |-> TRUE,
               headers |-> [indexes |-> (to :> index) @@ h.indexes,
                            row |-> [h.row EXCEPT ![index + 1] = to]],
               err |-> None]
renameRemoveFirst(h, from, to) ==
    LET r == MapRemove(h.indexes, from)
        h1 == [h EXCEPT !.indexes = r.map] IN
    IF get_index(h, to) # None
    THEN [ok |-> FALSE, headers |-> h1,
          err |-> Some(RenameError_DuplicateColumn(get_index(h, to)[1]))]
    ELSE IF r.removed = None
         THEN [ok |-> FALSE, headers |-> h1, err |-> Some(RenameError_MissingColumn)]
         ELSE LET index == r.removed[1] IN
              [ok |-> TRUE,
               headers |-> [indexes |-> (to :> index) @@ h1.indexes,
                            row |-> [h1.row EXCEPT ![index + 1] = to]],
               err |-> None]
renameFromFirst(h, from, to) ==
    LET r == MapRemove(h.indexes, from) IN
    IF r.removed = None
    THEN [ok |-> FALSE, headers |-> h, err |-> Some(RenameError_MissingColumn)]
    ELSE IF get_index(h, to) # None
         THEN [ok |-> FALSE, headers |-> h,
               err |-> Some(RenameError_DuplicateColumn(get_index(h, to)[1]))]
         ELSE LET index == r.removed[1] IN
              [ok |-> TRUE,
               headers |-> [indexes |-> (to :> index) @@ r.map,
                            row |-> [h.row EXCEPT ![index + 1] = to]],
               err |-> None]
renameAtTheEnd(h, from, to) ==
    IF get_index(h, to) # None
    THEN [ok |-> FALSE, headers |-> h,
          err |-> Some(RenameError_DuplicateColumn(get_index(h, to)[1]))]
    ELSE LET r == MapRemove(h.indexes, from) IN
         IF r.removed = None
         THEN [ok |-> FALSE, headers |-> h, err |-> Some(RenameError_MissingColumn)]
         ELSE LET index == r.removed[1]
                  new == Append(SubSeq(h.row, 1, index)
                                    \o SubSeq(h.row, index + 2, Len(h.row)), to) IN
              [ok |-> TRUE,
               headers |-> [indexes |-> [n \in {new[i] : i \in 1..Len(new)} |->
                                            (CHOOSE i \in 1..Len(new) : new[i] = n) - 1],
                            row |-> new],
               err |-> None]
rename(h, from, to) ==
    IF get_index(h, to) # None
    THEN [ok |-> FALSE, headers |-> h,
          err |-> Some(RenameError_DuplicateColumn(get_index(h, to)[1]))]
    ELSE LET r == MapRemove(h.indexes, from)
             h1 == [h EXCEPT !.indexes = r.map] IN
         IF r.removed = None
         THEN [ok |-> FALSE, headers |-> h1, err |-> Some(RenameError_MissingColumn)]
         ELSE LET index == r.removed[1] IN
              [ok |-> TRUE,
               headers |-> [indexes |-> (to :> index) @@ h1.indexes,
                            row |-> [h1.row EXCEPT ![index + 1] = to]],
               err |-> None]

(***************************************************************************)
(* pipeline.rs: Pipeline { headers, source, iterator }.  The iterator of a  *)
(* source pipeline (from_rows, from_reader) is the sequence of the items   *)
(* it has still to yield; it yields None for ever once it is empty.        *)
(***************************************************************************)
\* Pipeline::from_rows / Pipeline::from_reader, given the Headers and the items
Pipeline(headers, items) == [headers |-> headers, source |-> 0, iterator |-> items]

\* Pipeline::build: PipelineIter { headers, iterator }
build(p) == [headers |-> p.headers, iterator |-> p.iterator]

\* PipelineIter::next of a source: [item, iter]
PipelineIterNext(it) ==
    IF it.iterator = <<>> THEN [item |-> None, iter |-> it]
    ELSE [item |-> Some(Head(it.iterator)), iter |-> [it EXCEPT !.iterator = Tail(@)]]

(***************************************************************************)
(* pipeline_iterators.rs: PipelinesChain.                                  *)
(***************************************************************************)
\* Pipeline::from_pipelines: the Pipeline whose iterator is a PipelinesChain
from_pipelines(ps) ==
    LET headers == IF ps = <<>> THEN Headers_new ELSE Head(ps).headers IN
    [headers |-> headers,
     source |-> 0,
     iterator |-> [pipelines |-> IF ps = <<>> THEN <<>> ELSE Tail(ps),
                   current |-> IF ps = <<>> THEN None ELSE Some(build(Head(ps))),
                   index |-> 0,
                   headers |-> headers]]

\* lines 23-25: an error item gets the chain's index, an Ok row is left alone
RetagKeep(item, index) == item
Retag(item, index) == IF IsErr(item) THEN Err(item[2], index) ELSE item

\* lines 33-35: the next pipeline becomes the current one
StartPipelineSkipFirst(c) ==
    LET p == Head(c.pipelines) IN
    [c EXCEPT !.pipelines = Tail(@), !.index = @ + 1,
              !.current = Some(build([p EXCEPT !.iterator = IF @ = <<>> THEN @ ELSE Tail(@)]))]
StartPipeline(c) ==
    [c EXCEPT !.pipelines = Tail(@), !.index = @ + 1,
              !.current = Some(build(Head(c.pipelines)))]

\* line 36: the new current's header row against the chain's (the first source's)
HeadersMismatchPrev(c, previous) == get_row(c.current[1].headers) # get_row(previous.headers)
HeadersMismatch(c, previous) == get_row(c.current[1].headers) # get_row(c.headers)

\* PipelinesChain::next: [item, chain]
RECURSIVE PipelinesChainNextKeepsCurrent(_)
PipelinesChainNextKeepsCurrent(c) ==
    IF c.current = None THEN [item |-> None, chain |-> c]
    ELSE LET r == PipelineIterNext(c.current[1])
             c1 == [c EXCEPT !.current = Some(r.iter)] IN
         IF r.item # None
         THEN [item |-> Some(Retag(r.item[1], c1.index)), chain |-> c1]
         ELSE IF c1.pipelines # <<>>
              THEN LET c2 == StartPipeline(c1) IN
                   IF HeadersMismatch(c2, c1.current[1])
                   THEN [item |-> Some(at_source(
                                     MismatchedHeaders(get_row(c2.headers),
                                                       get_row(c2.current[1].headers)),
                                     c2.index)),
                         chain |-> c2]
                   ELSE PipelinesChainNextKeepsCurrent(c2)
              ELSE [item |-> None, chain |-> c1]
RECURSIVE PipelinesChainNext(_)
PipelinesChainNext(c) ==
    IF c.current = None THEN [item |-> None, chain |-> c]
    ELSE LET r == PipelineIterNext(c.current[1])
             c1 == [c EXCEPT !.current = Some(r.iter)] IN
         IF r.item # None
         THEN [item |-> Some(Retag(r.item[1], c1.index)), chain |-> c1]
         ELSE IF c1.pipelines # <<>>
              THEN LET c2 == StartPipeline(c1) IN
                   IF HeadersMismatch(c2, c1.current[1])
                   THEN [item |-> Some(at_source(
                                     MismatchedHeaders(get_row(c2.headers),
                                                       get_row(c2.current[1].headers)),
                                     c2.index)),
                         chain |-> c2]
                   ELSE PipelinesChainNext(c2)
              ELSE [item |-> None, chain |-> [c1 EXCEPT !.current = None]]

(***************************************************************************)
(* Numbers as fields.  Sum<i32> reads a field with str::parse::<i32> (an   *)
(* optional sign, then one or more decimal digits) and prints its value    *)
(* with to_string.  The fields of the model are short, so no parsed value  *)
(* and no sum comes near the i32 range.                                    *)
(***************************************************************************)
Digits == <<"0", "1", "2", "3", "4", "5", "6", "7", "8", "9">>
IsDigit(ch) == \E d \in 1..Len(Digits) : Digits[d] = ch
DigitValue(ch) == (CHOOSE d \in 1..Len(Digits) : Digits[d] = ch) - 1

RECURSIVE DigitsToNat(_, _)
DigitsToNat(chars, acc) ==
    IF chars = <<>> THEN acc
    ELSE DigitsToNat(Tail(chars), acc * Len(Digits) + DigitValue(Head(chars)))

\* str::parse::<i32>: Some(number) or None
ParseInt(field) ==
    LET signed == field # <<>> /\ field[1] \in {"+", "-"}
        digits == IF signed THEN Tail(field) ELSE field IN
    IF digits = <<>> \/ \E i \in 1..Len(digits) : ~IsDigit(digits[i]) THEN None
    ELSE LET n == DigitsToNat(digits, 0) IN
         Some(IF signed /\ field[1] = "-" THEN 0 - n ELSE n)

RECURSIVE NatToDigits(_)
NatToDigits(n) ==
    IF n < Len(Digits) THEN <<Digits[n + 1]>>
    ELSE Append(NatToDigits(n \div Len(Digits)), Digits[(n % Len(Digits)) + 1])

\* i32::to_string / u128::to_string
IntToString(n) == IF n < 0 THEN <<"-">> \o NatToDigits(0 - n) ELSE NatToDigits(n)

(***************************************************************************)
(* transform.rs: Transformer and the reducers KeepUnique, Sum, Count and   *)
(* Reduce.  A reducer is [kind, name, from_col, value]; value is a field   *)
(* for KeepUnique and a number for Sum and Count.  A Reduce has its        *)
(* closure as well, [kind, name, from_col, value, reduce], and its value   *)
(* is a field (V = String).                                                *)
(***************************************************************************)
\* Transformer::new(name).from_col(from_col).keep_unique()
keep_unique(name, from_col) ==
    [kind |-> "KeepUnique", name |-> name, from_col |-> from_col, value |-> <<>>]
\* Transformer::new(name).from_col(from_col).sum(init)
sum(name, from_col, init) ==
    [kind |-> "Sum", name |-> name, from_col |-> from_col, value |-> init]
\* Transformer::new(name).from_col(from_col).reduce(reduce, init)
reduce(name, from_col, fn, init) ==
    [kind |-> "Reduce", name |-> name, from_col |-> from_col, value |-> init,
     reduce |-> fn]
\* Transformer::new(name).count()
CountStartsAtOne(name) ==
    [kind |-> "Count", name |-> name, from_col |-> name, value |-> 1]
count(name) ==
    [kind |-> "Count", name |-> name, from_col |-> name, value |-> 0]

\* the get_transformers closure: fresh reducers, as declared
get_transformers(decls) ==
    [i \in 1..Len(decls) |->
        CASE decls[i].kind = "KeepUnique" -> keep_unique(decls[i].name, decls[i].from_col)
          [] decls[i].kind = "Sum" -> sum(decls[i].name, decls[i].from_col, decls[i].init)
          [] decls[i].kind = "Count" -> count(decls[i].name)
          [] decls[i].kind = "Reduce" ->
                reduce(decls[i].name, decls[i].from_col, decls[i].reduce, decls[i].init)]

\* Transform::hash: [ok, hasher, err].  The hasher is the sequence of the fields
\* written to it; only KeepUnique writes one.
TransformHashEveryColumn(r, hasher, headers, row) ==
    IF r.kind # "Count"
    THEN LET field == get_field(headers, row, r.from_col) IN
         IF field = None
         THEN [ok |-> FALSE, hasher |-> hasher, err |-> Some(MissingColumn(r.from_col))]
         ELSE [ok |-> TRUE, hasher |-> Append(hasher, field[1]), err |-> None]
    ELSE [ok |-> TRUE, hasher |-> hasher, err |-> None]
TransformHash(r, hasher, headers, row) ==
    IF r.kind = "KeepUnique"
    THEN LET field == get_field(headers, row, r.from_col) IN
         IF field = None
         THEN [ok |-> FALSE, hasher |-> hasher, err |-> Some(MissingColumn(r.from_col))]
         ELSE [ok |-> TRUE, hasher |-> Append(hasher, field[1]), err |-> None]
    ELSE [ok |-> TRUE, hasher |-> hasher, err |-> None]

\* compute_hash: [ok, hash, err].  DefaultHasher::finish is taken to be free of
\* collisions: the hash is the sequence of the fields written.
RECURSIVE compute_hash_loop(_, _, _, _)
compute_hash_loop(transformers, hasher, headers, row) ==
    IF transformers = <<>> THEN [ok |-> TRUE, hash |-> hasher, err |-> None]
    ELSE LET result == TransformHash(Head(transformers), hasher, headers, row) IN
         IF ~result.ok THEN [ok |-> FALSE, hash |-> hasher, err |-> result.err]
         ELSE compute_hash_loop(Tail(transformers), result.hasher, headers, row)

compute_hash(transformers, headers, row) ==
    compute_hash_loop(transformers, <<>>, headers, row)

\* KeepUnique::add_row: [ok, reducer, err]
KeepUniqueAddRow(r, headers, row) ==
    LET field == get_field(headers, row, r.from_col) IN
    IF field = None
    THEN [ok |-> FALSE, reducer |-> r, err |-> Some(MissingColumn(r.from_col))]
    ELSE [ok |-> TRUE, reducer |-> [r EXCEPT !.value = field[1]], err |-> None]

\* Sum::add_row: [ok, reducer, err]
SumAddRowOverwrite(r, headers, row) ==
    LET field == get_field(headers, row, r.from_col) IN
    IF field = None
    THEN [ok |-> FALSE, reducer |-> r, err |-> Some(MissingColumn(r.from_col))]
    ELSE LET new == ParseInt(field[1]) IN
         IF new = None
         THEN [ok |-> FALSE, reducer |-> r, err |-> Some(InvalidField(field[1]))]
         ELSE [ok |-> TRUE, reducer |-> [r EXCEPT !.value = new[1]], err |-> None]
SumAddRowSkipInvalid(r, headers, row) ==
    LET field == get_field(headers, row, r.from_col) IN
    IF field = None
    THEN [ok |-> FALSE, reducer |-> r, err |-> Some(MissingColumn(r.from_col))]
    ELSE LET new == ParseInt(field[1]) IN
         IF new = None
         THEN [ok |-> TRUE, reducer |-> r, err |-> None]
         ELSE [ok |-> TRUE, reducer |-> [r EXCEPT !.value = @ + new[1]], err |-> None]
SumAddRow(r, headers, row) ==
    LET field == get_field(headers, row, r.from_col) IN
    IF field = None
    THEN [ok |-> FALSE, reducer |-> r, err |-> Some(MissingColumn(r.from_col))]
    ELSE LET new == ParseInt(field[1]) IN
         IF new = None
         THEN [ok |-> FALSE, reducer |-> r, err |-> Some(InvalidField(field[1]))]
         ELSE [ok |-> TRUE, reducer |-> [r EXCEPT !.value = @ + new[1]], err |-> None]

\* Count::add_row: [ok, reducer, err]
CountAddRow(r, headers, row) ==
    [ok |-> TRUE, reducer |-> [r EXCEPT !.value = @ + 1], err |-> None]

\* the closures FnMut(V, &str) -> Result<V, Error> of the model
ApplyReduceFn(fn, v, field) ==
    CASE fn = "Concat" -> Ok(v \o field)

\* Reduce::add_row: [ok, reducer, err]
ReduceAddRow(r, headers, row) ==
    LET field == get_field(headers, row, r.from_col) IN
    IF field = None
    THEN [ok |-> FALSE, reducer |-> r, err |-> Some(MissingColumn(r.from_col))]
    ELSE LET res == ApplyReduceFn(r.reduce, r.value, field[1]) IN
         IF IsOk(res) THEN [ok |-> TRUE, reducer |-> [r EXCEPT !.value = res[2]], err |-> None]
         ELSE [ok |-> FALSE, reducer |-> r, err |-> Some(res[2])]

\* Transform::add_row, by the reducer's kind
add_row(r, headers, row) ==
    CASE r.kind = "KeepUnique" -> KeepUniqueAddRow(r, headers, row)
      [] r.kind = "Sum" -> SumAddRow(r, headers, row)
      [] r.kind = "Count" -> CountAddRow(r, headers, row)
      [] r.kind = "Reduce" -> ReduceAddRow(r, headers, row)

\* Transform::value, by the reducer's kind
value(r) ==
    CASE r.kind = "KeepUnique" -> r.value
      [] r.kind = "Sum" -> IntToString(r.value)
      [] r.kind = "Count" -> IntToString(r.value)
      [] r.kind = "Reduce" -> r.value

(***************************************************************************)
(* pipeline_iterators.rs: TransformInto.  groups is the LinkedHashMap as   *)
(* the sequence of its entries [key, reducers] in insertion order.  The    *)
(* upstream iterator is a PipelinesChain.                                  *)
(***************************************************************************)
\* Pipeline::transform_into: the TransformInto it boxes
transform_into(pipeline, decls) ==
    [iterator |-> pipeline.iterator,
     groups |-> <<>>,
     hashers |-> get_transformers(decls),
     get_transformers |-> decls,
     source |-> pipeline.source,
     headers |-> pipeline.headers]

HasKey(groups, hash) == \E g \in 1..Len(groups) : groups[g].key = hash
KeyIndex(groups, hash) == CHOOSE g \in 1..Len(groups) : groups[g].key = hash

\* lines 240-246: groups.entry(hash), the fresh reducers inserted if it is vacant
GroupsEntryRefresh(groups, hash, fresh) ==
    IF HasKey(groups, hash)
    THEN LET g == KeyIndex(groups, hash) IN
         Append(SubSeq(groups, 1, g - 1) \o SubSeq(groups, g + 1, Len(groups)), groups[g])
    ELSE Append(groups, [key |-> hash, reducers |-> fresh])
GroupsEntry(groups, hash, fresh) ==
    IF HasKey(groups, hash) THEN groups
    ELSE Append(groups, [key |-> hash, reducers |-> fresh])

\* lines 249-254: the row is given to the group's reducers in their order, up to
\* the first that fails: [reducers, err]
RECURSIVE FoldRow(_, _, _, _)
FoldRow(rs, i, headers, row) ==
    IF i > Len(rs) THEN [reducers |-> rs, err |-> None]
    ELSE LET result == add_row(rs[i], headers, row) IN
         IF ~result.ok THEN [reducers |-> rs, err |-> result.err]
         ELSE FoldRow([rs EXCEPT ![i] = result.reducer], i + 1, headers, row)

\* lines 229-255: the while loop over the upstream: [item, state].  item is the
\* error the loop returned, or None when the upstream returned None.
RECURSIVE UpstreamLoop(_)
\* lines 249-255, the group's reducers folded: the first failure is returned,
\* else the loop goes on
UpstreamFolded(t2, err) ==
    IF err # None THEN [item |-> Some(at_source(err[1], t2.source)), state |-> t2]
    ELSE UpstreamLoop(t2)
UpstreamFoldDropsGroup(t1, groups, g, fold) ==
    IF fold.err # None
    THEN UpstreamFolded([t1 EXCEPT !.groups = SubSeq(groups, 1, g - 1)
                                               \o SubSeq(groups, g + 1, Len(groups))],
                        fold.err)
    ELSE UpstreamFolded([t1 EXCEPT !.groups = [groups EXCEPT ![g].reducers = fold.reducers]],
                        fold.err)
UpstreamFold(t1, groups, g, fold) ==
    UpstreamFolded([t1 EXCEPT !.groups = [groups EXCEPT ![g].reducers = fold.reducers]],
                   fold.err)
\* lines 240-254, the row's group: the entry of the hash, given the row
UpstreamGroup(t1, row, hash, groups) ==
    UpstreamFold(t1, groups, KeyIndex(groups, hash),
                 FoldRow(groups[KeyIndex(groups, hash)].reducers, 1, t1.headers, row))
\* lines 235-239, the row's hash h: its failure is returned
UpstreamHashed(t1, row, h) ==
    IF ~h.ok THEN [item |-> Some(at_source(h.err[1], t1.source)), state |-> t1]
    ELSE UpstreamGroup(t1, row, h.hash,
                       GroupsEntry(t1.groups, h.hash, get_transformers(t1.get_transformers)))
UpstreamRow(t1, row) ==
    UpstreamHashed(t1, row, compute_hash(t1.hashers, t1.headers, row))
\* lines 229-234, what the upstream returned (r): None ends the loop, an error
\* is returned as it is
UpstreamItem(t, r) ==
    IF r.item = None THEN [item |-> None, state |-> [t EXCEPT !.iterator = r.chain]]
    ELSE IF IsErr(r.item[1])
    THEN [item |-> r.item, state |-> [t EXCEPT !.iterator = r.chain]]
    ELSE UpstreamRow([t EXCEPT !.iterator = r.chain], r.item[1][2])
UpstreamLoop(t) == UpstreamItem(t, PipelinesChainNext(t.iterator))

\* lines 257-264: the first group is removed and emitted as a row: [item, state]
DrainKeepsGroup(t) ==
    IF t.groups # <<>>
    THEN LET rs == Head(t.groups).reducers IN
         [item |-> Some(Ok([i \in 1..Len(rs) |-> value(rs[i])])), state |-> t]
    ELSE [item |-> None, state |-> t]
Drain(t) ==
    IF t.groups # <<>>
    THEN LET rs == Head(t.groups).reducers IN
         [item |-> Some(Ok([i \in 1..Len(rs) |-> value(rs[i])])),
          state |-> [t EXCEPT !.groups = Tail(@)]]
    ELSE [item |-> None, state |-> t]

\* lines 256-264: the loop's error is returned, else a group is emitted
AfterLoop(l) == IF l.item # None THEN l ELSE Drain(l.state)

\* TransformInto::next: [item, state]
TransformIntoNextEager(t) ==
    IF t.groups # <<>> THEN Drain(t)
    ELSE LET l == UpstreamLoop(t) IN
         IF l.item # None THEN l ELSE Drain(l.state)
TransformIntoNext(t) == AfterLoop(UpstreamLoop(t))

(***************************************************************************)
(* pipeline_iterators.rs: the stages.  A Box<dyn Iterator<Item =           *)
(* RowResult>> is [kind, it]: the kind tells whose next is called, it is   *)
(* the iterator's own state.  A closure is [fn, col, val, calls]: what it  *)
(* computes, and the arguments of the calls made to it so far.  A closure  *)
(* returns Ok(value) or Failure(error).  A Target is [script, log]: for    *)
(* each coming call whether the sink fails it, and the calls made so far.  *)
(***************************************************************************)
Box(kind, it) == [kind |-> kind, it |-> it]

Failure(error) == <<"Err", error>>
Unit == <<>>

Closure(fn, col, val) == [fn |-> fn, col |-> col, val |-> val, calls |-> <<>>]

\* the closures FnMut(&Headers, &Row) of the model
ApplyRowFn(f, headers, row) ==
    LET field == get_field(headers, row, f.col) IN
    CASE f.fn = "Field" ->
            IF field = None THEN Failure(MissingColumn(f.col)) ELSE Ok(field[1])
      [] f.fn = "Equals" ->
            IF field = None THEN Failure(MissingColumn(f.col)) ELSE Ok(field[1] = f.val)
      [] f.fn = "IsNumber" ->
            IF field = None THEN Failure(MissingColumn(f.col))
            ELSE IF ParseInt(field[1]) = None THEN Failure(InvalidField(field[1]))
            ELSE Ok(Unit)
      [] f.fn = "Swap" ->
            LET other == get_field(headers, row, f.val) IN
            IF field = None THEN Failure(MissingColumn(f.col))
            ELSE IF other = None THEN Failure(MissingColumn(f.val))
            ELSE Ok(<<other[1], field[1]>>)

\* the closures FnMut(&str) of the model
ApplyFieldFn(f, field) ==
    CASE f.fn = "Increment" ->
            IF ParseInt(field) = None THEN Failure(InvalidField(field))
            ELSE Ok(IntToString(ParseInt(field)[1] + 1))
      [] f.fn = "IsNumber" ->
            IF ParseInt(field) = None THEN Failure(InvalidField(field)) ELSE Ok(Unit)
      [] f.fn = "Equals" -> Ok(field = f.val)

\* (self.f)(&self.headers, &row) and (self.f)(field): [ret, f]
CallRowFn(f, headers, row) ==
    [ret |-> ApplyRowFn(f, headers, row), f |-> [f EXCEPT !.calls = Append(@, row)]]
CallFieldFn(f, field) ==
    [ret |-> ApplyFieldFn(f, field), f |-> [f EXCEPT !.calls = Append(@, field)]]

\* Target::write_headers and Target::write_row: [ok, target]
SinkCall(target, call, arg) ==
    LET fails == target.script # <<>> /\ Head(target.script) IN
    [ok |-> ~fails,
     target |-> [script |-> IF target.script = <<>> THEN <<>> ELSE Tail(target.script),
                 log |-> Append(target.log, [call |-> call, arg |-> arg, ok |-> ~fails])]]
write_headers(target, headers) == SinkCall(target, "write_headers", get_row(headers))
write_row(target, row) == SinkCall(target, "write_row", row)
SinkError == CsvError("sink")

\* The next of a stage is given, as r, what self.iterator.next() returned:
\* [item, iter], iter being the upstream iterator afterwards.

\* AddCol::next: [item, iter]
AddColNext(s, r) ==
    LET s1 == [s EXCEPT !.iterator = r.iter] IN
    IF r.item = None THEN [item |-> None, iter |-> s1]
    ELSE IF IsErr(r.item[1]) THEN [item |-> r.item, iter |-> s1]
    ELSE LET row == r.item[1][2]
             c == CallRowFn(s1.f, s1.headers, row)
             s2 == [s1 EXCEPT !.f = c.f] IN
         IF IsOk(c.ret) THEN [item |-> Some(Ok(Append(row, c.ret[2]))), iter |-> s2]
         ELSE [item |-> Some(at_source(c.ret[2], s2.source)), iter |-> s2]

\* MapRow::next: [item, iter]
MapRowNext(s, r) ==
    LET s1 == [s EXCEPT !.iterator = r.iter] IN
    IF r.item = None THEN [item |-> None, iter |-> s1]
    ELSE IF IsErr(r.item[1]) THEN [item |-> r.item, iter |-> s1]
    ELSE LET c == CallRowFn(s1.f, s1.headers, r.item[1][2])
             s2 == [s1 EXCEPT !.f = c.f] IN
         IF IsOk(c.ret) THEN [item |-> Some(Ok(c.ret[2])), iter |-> s2]
         ELSE [item |-> Some(at_source(c.ret[2], s2.source)), iter |-> s2]

\* MapCol::next: [item, iter]
MapColNextKeepsShortRow(s, r) ==
    LET s1 == [s EXCEPT !.iterator = r.iter] IN
    IF r.item = None THEN [item |-> None, iter |-> s1]
    ELSE IF IsErr(r.item[1]) THEN [item |-> r.item, iter |-> s1]
    ELSE LET row_vec == r.item[1][2] IN
         IF s1.index = None
         THEN [item |-> Some(at_source(MissingColumn(s1.name), s1.source)), iter |-> s1]
         ELSE LET index == s1.index[1]
                  field == RowGet(row_vec, index) IN
              IF field = None
              THEN [item |-> r.item, iter |-> s1]
              ELSE LET c == CallFieldFn(s1.f, field[1])
                       s2 == [s1 EXCEPT !.f = c.f] IN
                   IF IsOk(c.ret)
                   THEN [item |-> Some(Ok([row_vec EXCEPT ![index + 1] = c.ret[2]])),
                         iter |-> s2]
                   ELSE [item |-> Some(at_source(c.ret[2], s2.source)), iter |-> s2]
MapColNext(s, r) ==
    LET s1 == [s EXCEPT !.iterator = r.iter] IN
    IF r.item = None THEN [item |-> None, iter |-> s1]
    ELSE IF IsErr(r.item[1]) THEN [item |-> r.item, iter |-> s1]
    ELSE LET row_vec == r.item[1][2] IN
         IF s1.index = None
         THEN [item |-> Some(at_source(MissingColumn(s1.name), s1.source)), iter |-> s1]
         ELSE LET index == s1.index[1]
                  field == RowGet(row_vec, index) IN
              IF field = None
              THEN [item |-> Some(at_source(MissingColumn(s1.name), s1.source)),
                    iter |-> s1]
              ELSE LET c == CallFieldFn(s1.f, field[1])
                       s2 == [s1 EXCEPT !.f = c.f] IN
                   IF IsOk(c.ret)
                   THEN [item |-> Some(Ok([row_vec EXCEPT ![index + 1] = c.ret[2]])),
                         iter |-> s2]
                   ELSE [item |-> Some(at_source(c.ret[2], s2.source)), iter |-> s2]

\* Filter::next, one turn of its loop: [item, iter, again], again telling that
\* the loop continues with another pull
FilterNextStopsAtFalse(s, r) ==
    LET s1 == [s EXCEPT !.iterator = r.iter] IN
    IF r.item = None THEN [item |-> None, iter |-> s1, again |-> FALSE]
    ELSE IF IsErr(r.item[1]) THEN [item |-> r.item, iter |-> s1, again |-> FALSE]
    ELSE LET c == CallRowFn(s1.f, s1.headers, r.item[1][2])
             s2 == [s1 EXCEPT !.f = c.f] IN
         IF IsErr(c.ret)
         THEN [item |-> Some(at_source(c.ret[2], s2.source)), iter |-> s2, again |-> FALSE]
         ELSE IF c.ret[2] THEN [item |-> r.item, iter |-> s2, again |-> FALSE]
         ELSE [item |-> None, iter |-> s2, again |-> FALSE]
FilterNext(s, r) ==
    LET s1 == [s EXCEPT !.iterator = r.iter] IN
    IF r.item = None THEN [item |-> None, iter |-> s1, again |-> FALSE]
    ELSE IF IsErr(r.item[1]) THEN [item |-> r.item, iter |-> s1, again |-> FALSE]
    ELSE LET c == CallRowFn(s1.f, s1.headers, r.item[1][2])
             s2 == [s1 EXCEPT !.f = c.f] IN
         IF IsErr(c.ret)
         THEN [item |-> Some(at_source(c.ret[2], s2.source)), iter |-> s2, again |-> FALSE]
         ELSE IF c.ret[2] THEN [item |-> r.item, iter |-> s2, again |-> FALSE]
         ELSE [item |-> None, iter |-> s2, again |-> TRUE]

\* FilterCol::next, one turn of its loop: [item, iter, again].  The stage that
\* Pipeline::filter_col attaches keeps the rows whose field of the named
\* column satisfies the closure FnMut(&str) -> bool; like the other stages it
\* forwards an error item as it is, and like the stages of a named column
\* (MapCol, ValidateCol) it answers a row without that column with
\* MissingColumn at its source.
FilterColNext(s, r) ==
    LET s1 == [s EXCEPT !.iterator = r.iter] IN
    IF r.item = None THEN [item |-> None, iter |-> s1, again |-> FALSE]
    ELSE IF IsErr(r.item[1]) THEN [item |-> r.item, iter |-> s1, again |-> FALSE]
    ELSE LET field == get_field(s1.headers, r.item[1][2], s1.name) IN
         IF field = None
         THEN [item |-> Some(at_source(MissingColumn(s1.name), s1.source)),
               iter |-> s1, again |-> FALSE]
         ELSE LET c == CallFieldFn(s1.f, field[1])
                  s2 == [s1 EXCEPT !.f = c.f] IN
              IF c.ret[2] THEN [item |-> r.item, iter |-> s2, again |-> FALSE]
              ELSE [item |-> None, iter |-> s2, again |-> TRUE]

\* Select::next, the loop over the columns: [ok, selection, err]
RECURSIVE SelectLoopSkipsAbsent(_, _, _, _)
SelectLoopSkipsAbsent(columns, headers, row, selection) ==
    IF columns = <<>> THEN [ok |-> TRUE, selection |-> selection, err |-> None]
    ELSE LET field == get_field(headers, row, Head(columns)) IN
         IF field = None
         THEN SelectLoopSkipsAbsent(Tail(columns), headers, row, selection)
         ELSE SelectLoopSkipsAbsent(Tail(columns), headers, row,
                                    Append(selection, field[1]))
RECURSIVE SelectLoop(_, _, _, _)
SelectLoop(columns, headers, row, selection) ==
    IF columns = <<>> THEN [ok |-> TRUE, selection |-> selection, err |-> None]
    ELSE LET field == get_field(headers, row, Head(columns)) IN
         IF field = None
         THEN [ok |-> FALSE, selection |-> selection,
               err |-> Some(MissingColumn(Head(columns)))]
         ELSE SelectLoop(Tail(columns), headers, row, Append(selection, field[1]))

\* Select::next: [item, iter]
SelectNext(s, r) ==
    LET s1 == [s EXCEPT !.iterator = r.iter] IN
    IF r.item = None THEN [item |-> None, iter |-> s1]
    ELSE IF IsErr(r.item[1]) THEN [item |-> r.item, iter |-> s1]
    ELSE LET l == SelectLoop(s1.columns, s1.headers, r.item[1][2], <<>>) IN
         IF l.ok THEN [item |-> Some(Ok(l.selection)), iter |-> s1]
         ELSE [item |-> Some(at_source(l.err[1], s1.source)), iter |-> s1]

\* Validate::next: [item, iter]
ValidateNextDropsBad(s, r) ==
    LET s1 == [s EXCEPT !.iterator = r.iter] IN
    IF r.item = None THEN [item |-> None, iter |-> s1]
    ELSE IF IsErr(r.item[1]) THEN [item |-> r.item, iter |-> s1]
    ELSE LET c == CallRowFn(s1.f, s1.headers, r.item[1][2])
             s2 == [s1 EXCEPT !.f = c.f] IN
         IF IsOk(c.ret) THEN [item |-> r.item, iter |-> s2]
         ELSE [item |-> None, iter |-> s2]
ValidateNextRetag(s, r) ==
    LET s1 == [s EXCEPT !.iterator = r.iter] IN
    IF r.item = None THEN [item |-> None, iter |-> s1]
    ELSE IF IsErr(r.item[1])
         THEN [item |-> Some(at_source(r.item[1][2], s1.source)), iter |-> s1]
    ELSE LET c == CallRowFn(s1.f, s1.headers, r.item[1][2])
             s2 == [s1 EXCEPT !.f = c.f] IN
         IF IsOk(c.ret) THEN [item |-> r.item, iter |-> s2]
         ELSE [item |-> Some(at_source(c.ret[2], s2.source)), iter |-> s2]
ValidateNext(s, r) ==
    LET s1 == [s EXCEPT !.iterator = r.iter] IN
    IF r.item = None THEN [item |-> None, iter |-> s1]
    ELSE IF IsErr(r.item[1]) THEN [item |-> r.item, iter |-> s1]
    ELSE LET c == CallRowFn(s1.f, s1.headers, r.item[1][2])
             s2 == [s1 EXCEPT !.f = c.f] IN
         IF IsOk(c.ret) THEN [item |-> r.item, iter |-> s2]
         ELSE [item |-> Some(at_source(c.ret[2], s2.source)), iter |-> s2]

\* ValidateCol::next: [item, iter]
ValidateColNext(s, r) ==
    LET s1 == [s EXCEPT !.iterator = r.iter] IN
    IF r.item = None THEN [item |-> None, iter |-> s1]
    ELSE IF IsErr(r.item[1]) THEN [item |-> r.item, iter |-> s1]
    ELSE LET field == get_field(s1.headers, r.item[1][2], s1.name) IN
         IF field = None
         THEN [item |-> Some(at_source(MissingColumn(s1.name), s1.source)), iter |-> s1]
         ELSE LET c == CallFieldFn(s1.f, field[1])
                  s2 == [s1 EXCEPT !.f = c.f] IN
              IF IsOk(c.ret) THEN [item |-> r.item, iter |-> s2]
              ELSE [item |-> Some(at_source(c.ret[2], s2.source)), iter |-> s2]

\* Flush::new
Flush_new(iterator, target, source, headers) ==
    [iterator |-> iterator, target |-> target, source |-> source,
     headers |-> Some(headers)]

\* Flush::next: [item, iter]; the upstream is pulled, and r used, only once the
\* headers are written
FlushNext(s, r) ==
    LET h == IF s.headers # None THEN write_headers(s.target, s.headers[1])
             ELSE [ok |-> TRUE, target |-> s.target] IN
    IF ~h.ok
    THEN [item |-> Some(at_source(SinkError, s.source)),
          iter |-> [s EXCEPT !.target = h.target]]
    ELSE LET s1 == [s EXCEPT !.target = h.target, !.headers = None]
             s2 == [s1 EXCEPT !.iterator = r.iter] IN
         IF r.item = None THEN [item |-> None, iter |-> s2]
         ELSE IF IsErr(r.item[1]) THEN [item |-> r.item, iter |-> s2]
         ELSE LET w == write_row(s2.target, r.item[1][2])
                  s3 == [s2 EXCEPT !.target = w.target] IN
              IF w.ok THEN [item |-> r.item, iter |-> s3]
              ELSE [item |-> Some(at_source(SinkError, s3.source)), iter |-> s3]

\* the next of the stage in the box b, given what the next of its upstream
\* returned (r): [item, iter, again], the stage put back in its box
Rebox(kind, n) ==
    [item |-> n.item, iter |-> Box(kind, n.iter),
     again |-> "again" \in DOMAIN n /\ n.again]
StageNext(b, r) ==
    CASE b.kind = "AddCol" -> Rebox(b.kind, AddColNext(b.it, r))
      [] b.kind = "MapRow" -> Rebox(b.kind, MapRowNext(b.it, r))
      [] b.kind = "MapCol" -> Rebox(b.kind, MapColNext(b.it, r))
      [] b.kind = "Filter" -> Rebox(b.kind, FilterNext(b.it, r))
      [] b.kind = "FilterCol" -> Rebox(b.kind, FilterColNext(b.it, r))
      [] b.kind = "Select" -> Rebox(b.kind, SelectNext(b.it, r))
      [] b.kind = "Validate" -> Rebox(b.kind, ValidateNext(b.it, r))
      [] b.kind = "ValidateCol" -> Rebox(b.kind, ValidateColNext(b.it, r))
      [] b.kind = "Flush" -> Rebox(b.kind, FlushNext(b.it, r))

\* <Box<dyn Iterator> as Iterator>::next: [item, iter]; n is what the next of
\* the boxed iterator returned
RECURSIVE IterNext(_)
ChainBoxNext(n) == [item |-> n.item, iter |-> Box("PipelinesChain", n.chain)]
TransformBoxNext(n) == [item |-> n.item, iter |-> Box("TransformInto", n.state)]
StageBoxNext(n) ==
    IF n.again THEN IterNext(n.iter) ELSE [item |-> n.item, iter |-> n.iter]
\* the iterator of Pipeline::from_rows, records.map(|row| Ok(row)): b.it holds
\* the items still to come
RowsBoxNext(b) ==
    IF b.it = <<>> THEN [item |-> None, iter |-> b]
    ELSE [item |-> Some(Head(b.it)), iter |-> Box("Rows", Tail(b.it))]
IterNext(b) ==
    IF b.kind = "Rows" THEN RowsBoxNext(b)
    ELSE IF b.kind = "PipelinesChain" THEN ChainBoxNext(PipelinesChainNext(b.it))
    ELSE IF b.kind = "TransformInto" THEN TransformBoxNext(TransformIntoNext(b.it))
    ELSE StageBoxNext(StageNext(b, IterNext(b.it.iterator)))

\* Pipeline::from_pipelines, the chain in its Box
from_pipelines_boxed(ps) ==
    [from_pipelines(ps) EXCEPT !.iterator = Box("PipelinesChain", @)]

\* Pipeline::from_rows, given the records, the header row first: [ok, pipeline,
\* err], pipeline being the Pipeline returned (its iterator in its Box) and
\* err the PlError returned
from_rowsFirstName(records) ==
    LET h == from_row(Head(records))
        rows == Tail(records) IN
    IF ~h.ok
    THEN [ok |-> FALSE, pipeline |-> None,
          err |-> Some(at_source(DuplicateColumn(Head(Head(records))), 0))]
    ELSE [ok |-> TRUE,
          pipeline |-> Some([headers |-> h.headers, source |-> 0,
                             iterator |-> Box("Rows", [i \in 1..Len(rows) |-> Ok(rows[i])])]),
          err |-> None]
from_rows(records) ==
    LET h == from_row(Head(records))
        rows == Tail(records) IN
    IF ~h.ok
    THEN [ok |-> FALSE, pipeline |-> None,
          err |-> Some(at_source(DuplicateColumn(h.dup[1]), 0))]
    ELSE [ok |-> TRUE,
          pipeline |-> Some([headers |-> h.headers, source |-> 0,
                             iterator |-> Box("Rows", [i \in 1..Len(rows) |-> Ok(rows[i])])]),
          err |-> None]

NoPipeline ==
    /\ pl = from_pipelines_boxed(<<>>)
    /\ program = <<>>
    /\ plOut = <<>>

(***************************************************************************)
(* pipeline.rs: the terminal operations of a PipelineIter.  A PlError is   *)
(* the error item <<"Err", error, source>> itself.                         *)
(***************************************************************************)
\* PipelineIter::next_error: [item, iter], item the Option<PlError>
\* (r is what self.next() returned)
RECURSIVE next_error(_)
next_error_loop(it, r) ==
    IF r.item = None THEN [item |-> None, iter |-> [it EXCEPT !.iterator = r.iter]]
    ELSE IF IsErr(r.item[1])
    THEN [item |-> r.item, iter |-> [it EXCEPT !.iterator = r.iter]]
    ELSE next_error([it EXCEPT !.iterator = r.iter])
next_error(it) == next_error_loop(it, IterNext(it.iterator))

\* PipelineIter::run: [ret, iter], ret the Result<(), PlError> (r is what
\* self.next() returned)
RECURSIVE run(_)
run_loop(it, r) ==
    IF r.item = None THEN [ret |-> Ok(Unit), iter |-> [it EXCEPT !.iterator = r.iter]]
    ELSE IF IsErr(r.item[1])
    THEN [ret |-> r.item[1], iter |-> [it EXCEPT !.iterator = r.iter]]
    ELSE run([it EXCEPT !.iterator = r.iter])
RECURSIVE runToEnd(_)
runToEnd(it) ==
    LET r == IterNext(it.iterator)
        it1 == [it EXCEPT !.iterator = r.iter] IN
    IF r.item = None THEN [ret |-> Ok(Unit), iter |-> it1]
    ELSE IF IsErr(r.item[1]) THEN [ret |-> r.item[1], iter |-> runToEnd(it1).iter]
    ELSE runToEnd(it1)
run(it) == run_loop(it, IterNext(it.iterator))

(***************************************************************************)
(* The chain specification: a consumer pulls the chain built over sources  *)
(* whose rows and header rows are drawn from small sets.                   *)
(***************************************************************************)
HdrAB == <<"A", "B">>
HdrXY == <<"ID", "Country">>
ChainHeaderRows == {HdrAB, HdrXY}

Row12 == << <<"1">>, <<"2">> >>
Row34 == << <<"3">>, <<"4">> >>
ChainItems == {Ok(Row12), Ok(Row34), Err(CsvError("e0"), 0), Err(CsvError("e1"), 1)}

\* flat cut into n consecutive pieces at the cut points cuts (non-decreasing)
Pieces(flat, n, cuts) ==
    [i \in 1..n |->
        SubSeq(flat,
               (IF i = 1 THEN 0 ELSE cuts[i - 1]) + 1,
               IF i = n THEN Len(flat) ELSE cuts[i])]

CutsOf(flat, n) ==
    {cuts \in [1..(n - 1) -> 0..Len(flat)] :
        \A i \in 1..(n - 2) : cuts[i] <= cuts[i + 1]}

\* the number of pulls among out that returned None
NoneCount(out) == Cardinality({i \in 1..Len(out) : out[i] = None})
NoTransform == transform_into(from_pipelines(<<>>), <<>>)
NoChain == from_pipelines(<<>>).iterator
NoHeaders == hdr = Headers_new /\ hcall = None

InitChain ==
    \E n \in 0..MaxSources :
      \E flat \in SeqsUpTo(ChainItems, IF n = 0 THEN 0 ELSE MaxRows) :
        \E cuts \in CutsOf(flat, n) :
          \E hdrs \in {h \in [1..n -> ChainHeaderRows] : n >= 1 => h[1] = HdrAB} :
            /\ sources = [i \in 1..n |->
                            Pipeline(from_row(hdrs[i]).headers, Pieces(flat, n, cuts)[i])]
            /\ reducers = <<>>
            /\ chain = from_pipelines(sources).iterator
            /\ chainOut = <<>>
            /\ ti = NoTransform
            /\ tiOut = <<>>
            /\ NoHeaders
            /\ NoPipeline

\* one pull of the consumer on the chain; the consumer goes on pulling until
\* ExtraPulls pulls have returned None
ChainPull ==
    /\ NoneCount(chainOut) < ExtraPulls
    /\ LET r == PipelinesChainNext(chain) IN
         /\ chain' = r.chain
         /\ chainOut' = Append(chainOut, r.item)
    /\ UNCHANGED <<sources, reducers, ti, tiOut>>
    /\ UNCHANGED <<headerVars, pipeVars>>

NextChain == ChainPull

SpecChain == InitChain /\ [][NextChain]_vars

(***************************************************************************)
(* Properties of the chain.  They are stated over what the pulls returned  *)
(* (chainOut) and over the sources as they were handed in (sources).       *)
(***************************************************************************)
\* the items the pulls returned, the None results left out
ChainEmitted == Concat(chainOut)

HdrRow(k) == sources[k].headers.row
SameHeaders == \A k \in 1..Len(sources) : HdrRow(k) = HdrRow(1)
Mismatches(k) == k >= 2 /\ HdrRow(k) # HdrRow(1)
IsMismatchItem(item) == IsErr(item) /\ item[2][1] = "MismatchedHeaders"

\* the number of items the chain emits before the first item of source k (1-based)
RECURSIVE ItemsBefore(_)
ItemsBefore(k) ==
    IF k <= 1 THEN 0
    ELSE ItemsBefore(k - 1) + Len(sources[k - 1].iterator)
         + (IF Mismatches(k - 1) THEN 1 ELSE 0)

\* the source (1-based) and the place in it that the j-th emitted item comes from;
\* place 0 is the mismatch error emitted when the source is started
OriginOf(j) ==
    LET k == CHOOSE k \in 1..Len(sources) :
                 /\ ItemsBefore(k) < j
                 /\ j <= ItemsBefore(k) + Len(sources[k].iterator)
                         + (IF Mismatches(k) THEN 1 ELSE 0)
    IN [src |-> k,
        pos |-> j - ItemsBefore(k) - (IF Mismatches(k) THEN 1 ELSE 0)]

AllSourceItems == Concat([k \in 1..Len(sources) |-> sources[k].iterator])

\* C7: with identical headers the chain's output is the concatenation of the
\* sources' item sequences (an error item keeps its error, its source index is
\* the subject of C10): the j-th emitted item is the j-th item of that
\* concatenation, a pull returns None only when every item was emitted, and
\* source k is the current one only once every item of the sources before it
\* was emitted.
C7_ChainConcatenates ==
    SameHeaders =>
        /\ Len(ChainEmitted) <= Len(AllSourceItems)
        /\ \A j \in 1..Len(ChainEmitted) :
              LET out == ChainEmitted[j]
                  src == AllSourceItems[j] IN
              IF IsOk(src) THEN out = src
              ELSE IsErr(out) /\ out[2] = src[2]
        /\ \A i \in 1..Len(chainOut) :
              chainOut[i] = None => Len(Concat(SubSeq(chainOut, 1, i))) = Len(AllSourceItems)
        /\ chain.current # None => Len(ChainEmitted) >= ItemsBefore(chain.index + 1)

C7_Witness ==
    /\ SameHeaders
    /\ Len(sources) >= 2
    /\ \A k \in 1..2 : Len(sources[k].iterator) >= 1
    /\ Len(ChainEmitted) = Len(AllSourceItems)
    /\ chainOut # <<>> /\ chainOut[Len(chainOut)] = None

\* C8: a MismatchedHeaders error is emitted for source k exactly when the header
\* row of source k differs from the first source's, right after all items of the
\* sources before k; it holds the first source's header row and source k's, and
\* carries source index k (0-based: k - 1 here).
C8_MismatchAgainstFirst ==
    /\ \A k \in 2..Len(sources) :
          (Mismatches(k) /\ Len(ChainEmitted) > ItemsBefore(k)) =>
              ChainEmitted[ItemsBefore(k) + 1]
                  = Err(MismatchedHeaders(HdrRow(1), HdrRow(k)), k - 1)
    /\ \A j \in 1..Len(ChainEmitted) :
          IsMismatchItem(ChainEmitted[j]) =>
              \E k \in 2..Len(sources) : Mismatches(k) /\ j = ItemsBefore(k) + 1

\* a third source that has the second's header row, not the first's, and a
\* second source's successor that has the first's header row again
C8_Witness ==
    /\ Len(sources) = 3
    /\ HdrRow(2) # HdrRow(1) /\ HdrRow(3) = HdrRow(2)
    /\ Len(sources[1].iterator) >= 1
    /\ Len(ChainEmitted) > ItemsBefore(3)
    /\ IsMismatchItem(ChainEmitted[ItemsBefore(3) + 1])

\* C9 as claimed: once a MismatchedHeaders error for source k was emitted, every
\* later pull returns None, source k is left unread, no later source is started,
\* and one MismatchedHeaders error was emitted in all.
C9_StopsAfterMismatch ==
    \A i \in 1..Len(chainOut) :
        (chainOut[i] # None /\ IsMismatchItem(chainOut[i][1])) =>
            LET k == chainOut[i][1][3] IN
            /\ \A i2 \in (i + 1)..Len(chainOut) : chainOut[i2] = None
            /\ chain.index = k
            /\ chain.current # None => chain.current[1].iterator = sources[k + 1].iterator
            /\ Len(chain.pipelines) = Len(sources) - (k + 1)
            /\ Cardinality({j \in 1..Len(ChainEmitted) : IsMismatchItem(ChainEmitted[j])}) = 1

\* C10: every emitted item that comes from a source is that source's item at
\* its place: an Ok row unchanged, an error with the same error and with the
\* source's 0-based index, whatever index it had in the source.
C10_ErrorsTaggedWithIndex ==
    \A j \in 1..Len(ChainEmitted) :
        LET o == OriginOf(j) IN
        o.pos >= 1 =>
            LET src == sources[o.src].iterator[o.pos] IN
            IF IsOk(src) THEN ChainEmitted[j] = src
            ELSE ChainEmitted[j] = Err(src[2], o.src - 1)

\* an error that carried index 1 is forwarded from source 0 and one that carried
\* index 0 from source 1, next to an Ok row
C10_Witness ==
    /\ Len(ChainEmitted) = 3
    /\ Len(sources) >= 2
    /\ sources[1].iterator = <<Err(CsvError("e1"), 1)>>
    /\ Len(sources[2].iterator) = 2
    /\ sources[2].iterator[1] = Err(CsvError("e0"), 0)
    /\ IsOk(sources[2].iterator[2])
    /\ SameHeaders

\* the chain under a consumer that goes on pulling
SpecChainLive == SpecChain /\ WF_vars(ChainPull)

\* what the chain emits in all: the items of every source and one
\* MismatchedHeaders error for every source whose header row differs
ChainTotal == ItemsBefore(Len(sources) + 1)
ChainEnded == NoneCount(chainOut) >= 1

\* a pull before the end returns an item; a pull after the end returns None
\* and leaves the chain as it is
C30_PullStep ==
    /\ ~ChainEnded =>
          \/ /\ chainOut'[Len(chainOut')] # None
             /\ Len(chainOut') <= ChainTotal
          \/ /\ chainOut'[Len(chainOut')] = None
             /\ Len(chainOut) = ChainTotal
             /\ chain'.current = None
             /\ chain'.pipelines = <<>>
    /\ ChainEnded =>
          /\ chainOut' = Append(chainOut, None)
          /\ chain' = chain

\* once a pull returned None there is no current source and no source left,
\* every item was emitted before it and nothing after it
C30_EndState ==
    /\ Len(ChainEmitted) <= ChainTotal
    /\ ChainEnded =>
          /\ chain.current = None
          /\ chain.pipelines = <<>>
          /\ Len(ChainEmitted) = ChainTotal
          /\ \A i \in 1..Len(chainOut) :
                chainOut[i] = None <=> i > ChainTotal

\* C30: before its end every pull of the chain returns an item, so that a
\* source without rows (and an empty list of sources) costs no pull and emits
\* no row; the pull after the last item returns None and leaves the chain
\* without a current source; every later pull returns None and leaves the
\* chain unchanged; a consumer that goes on pulling reaches that end.
C30_ChainTerminates ==
    /\ []C30_EndState
    /\ [][C30_PullStep]_vars
    /\ <>ChainEnded

\* two sources without rows before the one that has the single row, and two
\* pulls that returned None after it
C30_Witness ==
    /\ Len(sources) = 3
    /\ SameHeaders
    /\ sources[1].iterator = <<>> /\ sources[2].iterator = <<>>
    /\ sources[3].iterator = <<Ok(Row12)>>
    /\ chainOut = <<Some(Ok(Row12)), None, None>>

(***************************************************************************)
(* The group-reduce specification: a consumer pulls a TransformInto built  *)
(* over the chain of two sources with the header row Name,Score.  The rows *)
(* are drawn from small sets and cut into the two sources at any place;    *)
(* the reducers are one of a few declarations.                             *)
(***************************************************************************)
HdrNS == <<"Name", "Score">>
KeyFields == {<<"A">>, <<"B">>}
ScoreFields == {<<"1">>, <<"+", "2">>, <<"x">>}
GroupItems ==
    {Ok(<<k, v>>) : k \in KeyFields, v \in ScoreFields}
        \cup {Ok(<<>>), Err(CsvError("e0"), 0)}

DeclKeepUnique(name, from_col) ==
    [kind |-> "KeepUnique", name |-> name, from_col |-> from_col, init |-> 0]
DeclSum(name, from_col, init) ==
    [kind |-> "Sum", name |-> name, from_col |-> from_col, init |-> init]
DeclCount(name) ==
    [kind |-> "Count", name |-> name, from_col |-> name, init |-> 0]
DeclReduce(name, from_col, fn, init) ==
    [kind |-> "Reduce", name |-> name, from_col |-> from_col, init |-> init, reduce |-> fn]

ReducerConfigs ==
    { <<DeclKeepUnique("Name", "Name"), DeclCount("Count")>>,
      <<DeclKeepUnique("Name", "Name"), DeclCount("Count"), DeclSum("Total", "Score", 0)>>,
      <<DeclSum("Total", "Score", 5), DeclKeepUnique("Name", "Name"), DeclCount("Count")>> }

InitGroup ==
    \E flat \in SeqsUpTo(GroupItems, MaxRows) :
      \E cuts \in CutsOf(flat, 2) :
        \E decls \in ReducerConfigs :
          /\ sources = [i \in 1..2 |->
                          Pipeline(from_row(HdrNS).headers, Pieces(flat, 2, cuts)[i])]
          /\ reducers = decls
          /\ ti = transform_into(from_pipelines(sources), decls)
          /\ tiOut = <<>>
          /\ chain = NoChain
          /\ chainOut = <<>>
          /\ NoHeaders
          /\ NoPipeline

\* one pull of the consumer on the TransformInto; the consumer goes on pulling
\* until ExtraPulls pulls have returned None
GroupPull ==
    /\ NoneCount(tiOut) < ExtraPulls
    /\ LET r == TransformIntoNext(ti) IN
         /\ ti' = r.state
         /\ tiOut' = Append(tiOut, r.item)
    /\ UNCHANGED <<sources, reducers, chain, chainOut>>
    /\ UNCHANGED <<headerVars, pipeVars>>

NextGroup == GroupPull

SpecGroup == InitGroup /\ [][NextGroup]_vars

(***************************************************************************)
(* Properties of the group-reduce stage.  They are stated over what the    *)
(* pulls returned (tiOut), the sources as they were handed in (sources)    *)
(* and the reducers as declared (reducers).                                *)
(***************************************************************************)
\* the items the pulls returned, the None results left out
GroupEmitted == Concat(tiOut)
GroupOkRows == LET e == SelectSeq(GroupEmitted, IsOk) IN [j \in 1..Len(e) |-> e[j][2]]
GroupDone == tiOut # <<>> /\ tiOut[Len(tiOut)] = None

\* what the upstream delivers: the sources' items in order, an error item with
\* the 0-based index of its source
Delivered ==
    Concat([k \in 1..Len(sources) |->
              [i \in 1..Len(sources[k].iterator) |->
                  LET item == sources[k].iterator[i] IN
                  IF IsErr(item) THEN Err(item[2], k - 1) ELSE item]])

\* the number of items the upstream chain c has still to deliver
RemainingItems(c) ==
    (IF c.current = None THEN 0 ELSE Len(c.current[1].iterator))
        + Len(Concat([i \in 1..Len(c.pipelines) |-> c.pipelines[i].iterator]))

Consumed == SubSeq(Delivered, 1, Len(Delivered) - RemainingItems(ti.iterator))

\* the columns of the header row Name,Score in a data row
HasName(item) == IsOk(item) /\ Len(item[2]) >= 1
NameOf(item) == item[2][1]
ScoreOf(item) == item[2][2]
ScoreParses(item) == Len(item[2]) >= 2 /\ ParseInt(ScoreOf(item)) # None

\* the distinct Name fields of the rows of items, in the order first seen
RECURSIVE FirstSeen(_, _)
FirstSeen(items, seen) ==
    IF items = <<>> THEN seen
    ELSE LET item == Head(items) IN
         IF HasName(item) /\ ~\E i \in 1..Len(seen) : seen[i] = NameOf(item)
         THEN FirstSeen(Tail(items), Append(seen, NameOf(item)))
         ELSE FirstSeen(Tail(items), seen)

PosOf(kind) == CHOOSE i \in 1..Len(reducers) : reducers[i].kind = kind
Declares(kind) == \E i \in 1..Len(reducers) : reducers[i].kind = kind

\* the rows of items with the Name field name
RowsOf(items, name) == SelectSeq(items, LAMBDA item : HasName(item) /\ NameOf(item) = name)

RECURSIVE SumScores(_)
SumScores(items) ==
    IF items = <<>> THEN 0
    ELSE (IF ScoreParses(Head(items)) THEN ParseInt(ScoreOf(Head(items)))[1] ELSE 0)
         + SumScores(Tail(items))

\* C1: the groups leave the registry in the order in which their keys were first
\* seen in the input, one per emitted Ok row: the registry always holds the keys
\* first seen in the rows read so far, in that order, less the first e of them,
\* e being the number of Ok rows emitted; and the j-th emitted Ok row is the row
\* of the j-th key (its KeepUnique field is that key, or is still empty when no
\* row was folded into the group's KeepUnique).  A row that hits an existing
\* group does not move it.
C1_FirstSeenOrder ==
    LET seen == FirstSeen(Consumed, <<>>)
        e == Len(GroupOkRows) IN
    /\ e <= Len(seen)
    /\ [g \in 1..Len(ti.groups) |-> ti.groups[g].key]
           = [g \in 1..(Len(seen) - e) |-> <<seen[g + e]>>]
    /\ \A j \in 1..e :
          LET field == GroupOkRows[j][PosOf("KeepUnique")] IN
          /\ field \in {seen[j], <<>>}
          /\ PosOf("KeepUnique") = 1 => field = seen[j]

\* rows A, B, A, then B emitted after A
C1_Witness ==
    /\ Len(Delivered) = 3
    /\ \A i \in 1..3 : HasName(Delivered[i])
    /\ NameOf(Delivered[1]) = NameOf(Delivered[3])
    /\ NameOf(Delivered[2]) # NameOf(Delivered[1])
    /\ Len(GroupOkRows) = 2
    /\ GroupOkRows[2][PosOf("KeepUnique")] = NameOf(Delivered[2])

\* C2: no group row is emitted before the upstream returned None: once an Ok row
\* was emitted the upstream is exhausted, and no error item follows an Ok row.
C2_NoGroupBeforeExhaustion ==
    /\ Len(GroupOkRows) >= 1 =>
          /\ ti.iterator.current = None
          /\ RemainingItems(ti.iterator) = 0
    /\ \A i \in 1..Len(GroupEmitted) : \A j \in (i + 1)..Len(GroupEmitted) :
          IsOk(GroupEmitted[i]) => IsOk(GroupEmitted[j])

\* a row, then an error item, then the row's group
C2_Witness ==
    /\ Len(Delivered) >= 2
    /\ HasName(Delivered[1]) /\ IsErr(Delivered[2])
    /\ Len(GroupEmitted) >= 2
    /\ IsErr(GroupEmitted[1]) /\ IsOk(GroupEmitted[Len(GroupEmitted)])

\* C3: with the reducers KeepUnique(Name), Count the Ok rows emitted are, in the
\* order first seen, one row per distinct Name: the Name and the number of
\* input rows with that Name; all of them are emitted before a pull returns None.
C3_KeepUniqueAndCount ==
    (Len(reducers) = 2 /\ reducers[1].kind = "KeepUnique" /\ reducers[2].kind = "Count") =>
        LET seen == FirstSeen(Delivered, <<>>) IN
        /\ Len(GroupOkRows) <= Len(seen)
        /\ \A j \in 1..Len(GroupOkRows) :
              GroupOkRows[j] = <<seen[j], IntToString(Len(RowsOf(Delivered, seen[j])))>>
        /\ GroupDone => Len(GroupOkRows) = Len(seen)

\* rows A, A, B give the rows A,2 and B,1
C3_Witness ==
    /\ Len(reducers) = 2
    /\ Len(Delivered) = 3
    /\ \A i \in 1..3 : HasName(Delivered[i])
    /\ NameOf(Delivered[1]) = <<"A">> /\ NameOf(Delivered[2]) = <<"A">>
    /\ NameOf(Delivered[3]) = <<"B">>
    /\ GroupOkRows = << <<<<"A">>, <<"2">>>>, <<<<"B">>, <<"1">>>> >>
    /\ GroupDone

\* the InvalidField errors among items
InvalidFieldErrors(items) ==
    SelectSeq(items, LAMBDA item : IsErr(item) /\ item[2][1] = "InvalidField")

\* C4: the Sum field of the j-th emitted row is the Sum's initial value plus the
\* sum of the parsed Score fields of the rows of the j-th group, whichever source
\* they come from; a row whose Score does not parse adds nothing and gives the
\* error InvalidField with the raw field.
C4_SumOfParsedFields ==
    Declares("Sum") =>
        LET seen == FirstSeen(Delivered, <<>>)
            init == reducers[PosOf("Sum")].init
            bad == SelectSeq(Consumed,
                             LAMBDA item : HasName(item) /\ Len(item[2]) >= 2
                                           /\ ~ScoreParses(item)) IN
        /\ \A j \in 1..Len(GroupOkRows) :
              GroupOkRows[j][PosOf("Sum")]
                  = IntToString(init + SumScores(RowsOf(Delivered, seen[j])))
        /\ InvalidFieldErrors(GroupEmitted)
              = [i \in 1..Len(bad) |-> Err(InvalidField(ScoreOf(bad[i])), 0)]

\* a group with a row in each source and a row whose Score does not parse
C4_Witness ==
    /\ Declares("Sum")
    /\ Len(sources[1].iterator) = 2 /\ Len(sources[2].iterator) = 1
    /\ \A i \in 1..3 : HasName(Delivered[i]) /\ NameOf(Delivered[i]) = <<"A">>
    /\ ScoreOf(Delivered[1]) = <<"1">>
    /\ ScoreOf(Delivered[2]) = <<"x">>
    /\ ScoreOf(Delivered[3]) = <<"+", "2">>
    /\ Len(GroupOkRows) = 1
    /\ GroupOkRows[1][PosOf("Sum")] = IntToString(reducers[PosOf("Sum")].init + 3)

\* every item a TransformInto returns up to its first None
RECURSIVE RunAll(_)
RunAll(t) ==
    LET r == TransformIntoNext(t) IN
    IF r.item = None THEN <<>>
    ELSE <<r.item[1]>> \o RunAll(r.state)

\* the sources with the items at places i and j of their concatenation swapped
SwappedSources(i, j) ==
    LET flat == Concat([k \in 1..Len(sources) |-> sources[k].iterator])
        swapped == [flat EXCEPT ![i] = flat[j], ![j] = flat[i]]
        cut == Len(sources[1].iterator) IN
    << [sources[1] EXCEPT !.iterator = SubSeq(swapped, 1, cut)],
       [sources[2] EXCEPT !.iterator = SubSeq(swapped, cut + 1, Len(swapped))] >>

\* C5: exchanging two input rows of one group, all other items kept in place,
\* leaves the emitted group rows unchanged.
C5_OrderInsensitiveWithinGroup ==
    GroupDone =>
        \A i \in 1..Len(Delivered) : \A j \in (i + 1)..Len(Delivered) :
            (HasName(Delivered[i]) /\ HasName(Delivered[j])
                /\ NameOf(Delivered[i]) = NameOf(Delivered[j])) =>
                LET out == RunAll(transform_into(from_pipelines(SwappedSources(i, j)),
                                                 reducers))
                    rows == SelectSeq(out, IsOk) IN
                [r \in 1..Len(rows) |-> rows[r][2]] = GroupOkRows

\* a group whose rows have different Scores, one of them in the second source,
\* next to a row of another group
C5_Witness ==
    /\ GroupDone
    /\ Declares("Sum")
    /\ Len(Delivered) = 3
    /\ Len(sources[2].iterator) = 1
    /\ \A i \in 1..3 : HasName(Delivered[i]) /\ ScoreParses(Delivered[i])
    /\ NameOf(Delivered[1]) = NameOf(Delivered[3])
    /\ NameOf(Delivered[2]) # NameOf(Delivered[1])
    /\ ScoreOf(Delivered[1]) # ScoreOf(Delivered[3])
    /\ Len(GroupOkRows) = 2

\* a row that every reducer folds
FoldsInAll(item) == HasName(item) /\ (Declares("Sum") => ScoreParses(item))

\* C6 as claimed: the values of the j-th emitted row are those got by folding
\* only the rows of the group that every reducer folded.
C6_FailedRowContributesNothing ==
    LET seen == FirstSeen(Delivered, <<>>) IN
    \A j \in 1..Len(GroupOkRows) :
        LET folded == SelectSeq(RowsOf(Delivered, seen[j]), FoldsInAll) IN
        GroupOkRows[j] =
            [i \in 1..Len(reducers) |->
                CASE reducers[i].kind = "KeepUnique" ->
                        IF folded = <<>> THEN <<>> ELSE seen[j]
                  [] reducers[i].kind = "Count" -> IntToString(Len(folded))
                  [] reducers[i].kind = "Sum" ->
                        IntToString(reducers[i].init + SumScores(folded))]

\* the chain upstream of the TransformInto has returned None, or has nothing
\* left to deliver
UpstreamExhausted == RemainingItems(ti.iterator) = 0

\* the row a group is emitted as: the finalized value of each of its reducers
EmittedRowOf(group) ==
    [i \in 1..Len(group.reducers) |->
        IF group.reducers[i].kind \in {"KeepUnique", "Reduce"} THEN group.reducers[i].value
        ELSE IntToString(group.reducers[i].value)]

\* C22: once the upstream is exhausted, each pull removes the first group of the
\* registry and yields it as an Ok row that holds the finalized values of the
\* group's reducers in the declared order, the other groups staying as they
\* are, so that N groups are emitted by the next N pulls, each once; with an
\* empty registry the pull returns None and the registry stays empty.  The keys
\* of the registry are pairwise distinct, and nothing follows a None but None.
C22_DrainStep ==
    UpstreamExhausted =>
        IF ti.groups # <<>>
        THEN /\ tiOut' = Append(tiOut, Some(Ok(EmittedRowOf(Head(ti.groups)))))
             /\ ti'.groups = Tail(ti.groups)
             /\ Len(EmittedRowOf(Head(ti.groups))) = Len(reducers)
             /\ \A i \in 1..Len(reducers) :
                   /\ Head(ti.groups).reducers[i].kind = reducers[i].kind
                   /\ Head(ti.groups).reducers[i].name = reducers[i].name
        ELSE tiOut' = Append(tiOut, None) /\ ti'.groups = <<>>
C22_DrainState ==
    /\ \A g, h \in 1..Len(ti.groups) : ti.groups[g].key = ti.groups[h].key => g = h
    /\ \A i \in 1..Len(tiOut) : \A j \in (i + 1)..Len(tiOut) :
          tiOut[i] = None => tiOut[j] = None
    /\ GroupDone => ti.groups = <<>>
C22_GroupsDrainedOnce == [][C22_DrainStep]_vars /\ []C22_DrainState

\* two groups were emitted by two pulls, and the two pulls after them returned
\* None
C22_Witness ==
    /\ Len(GroupOkRows) = 2
    /\ Len(tiOut) >= 4
    /\ tiOut[Len(tiOut)] = None /\ tiOut[Len(tiOut) - 1] = None
    /\ tiOut[Len(tiOut) - 2] # None /\ tiOut[Len(tiOut) - 3] # None
    /\ IsOk(tiOut[Len(tiOut) - 2][1]) /\ IsOk(tiOut[Len(tiOut) - 3][1])
    /\ GroupOkRows[1] # GroupOkRows[2]

\* the reducer declared by d folds the row of item without failing
FoldPasses(d, item) ==
    CASE d.kind = "KeepUnique" -> HasName(item)
      [] d.kind = "Count" -> TRUE
      [] d.kind = "Sum" -> ScoreParses(item)
\* the rows of items that the i-th reducer folded: those that no reducer
\* declared before it failed on, and that it did not fail on itself
FoldedBy(i, items) ==
    SelectSeq(items, LAMBDA item : \A j \in 1..i : FoldPasses(reducers[j], item))
\* what the reducers hold once the rows of items with the Name field name were
\* given to them
GroupValues(items, name) ==
    [i \in 1..Len(reducers) |->
        LET folded == FoldedBy(i, RowsOf(items, name)) IN
        CASE reducers[i].kind = "KeepUnique" -> IF folded = <<>> THEN <<>> ELSE name
          [] reducers[i].kind = "Count" -> IntToString(Len(folded))
          [] reducers[i].kind = "Sum" ->
                IntToString(reducers[i].init + SumScores(folded))]
\* the fold failures among items
IsFoldError(item) == IsErr(item) /\ item[2][1] = "InvalidField"

\* C24: a fold failure leaves the group and the engine in place: every group
\* whose key was seen and that was not emitted yet is in the registry, holding
\* for each reducer what it folded of the group's rows read so far, those read
\* before a failure and those read after it; each emitted row holds what the
\* reducers folded of all the rows of its group; and every group seen is
\* emitted before a pull returns None.
C24_GroupSurvivesFoldFailure ==
    LET seen == FirstSeen(Consumed, <<>>)
        e == Len(GroupOkRows) IN
    /\ Len(ti.groups) = Len(seen) - e
    /\ \A g \in 1..Len(ti.groups) :
          /\ ti.groups[g].key = <<seen[g + e]>>
          /\ [i \in 1..Len(reducers) |-> value(ti.groups[g].reducers[i])]
                = GroupValues(Consumed, seen[g + e])
    /\ \A j \in 1..e : GroupOkRows[j] = GroupValues(Delivered, seen[j])
    /\ GroupDone => e = Len(FirstSeen(Delivered, <<>>))

\* the rows A,1 then A,x then A,+2: the second gave a fold failure, and the
\* group was emitted with the first and the third summed
C24_Witness ==
    /\ Declares("Sum")
    /\ reducers[PosOf("Sum")].init = 0
    /\ Len(Delivered) = 3
    /\ \A i \in 1..3 : HasName(Delivered[i]) /\ NameOf(Delivered[i]) = <<"A">>
    /\ ScoreOf(Delivered[1]) = <<"1">>
    /\ ScoreOf(Delivered[2]) = <<"x">>
    /\ ScoreOf(Delivered[3]) = <<"+", "2">>
    /\ Len(GroupEmitted) = 2
    /\ IsFoldError(GroupEmitted[1])
    /\ GroupEmitted[2] = Ok(<< <<"A">>, <<"3">>, <<"3">> >>)

(***************************************************************************)
(* pipeline.rs: the methods that attach a stage to a Pipeline or change    *)
(* its Headers.  The iterator of these pipelines is a Box.  A method that  *)
(* can panic gives [ok, pipeline], ok being FALSE when it panics.          *)
(***************************************************************************)
\* Pipeline::add_col
add_col(p, name, get_value) ==
    LET headers == push_field(p.headers, name).headers IN
    [p EXCEPT !.headers = headers,
              !.iterator = Box("AddCol", [iterator |-> p.iterator, f |-> get_value,
                                          source |-> p.source, headers |-> headers])]

\* Pipeline::map
map(p, f) ==
    [p EXCEPT !.iterator = Box("MapRow", [iterator |-> p.iterator, f |-> f,
                                          source |-> p.source, headers |-> p.headers])]

\* Pipeline::map_col
map_col(p, col, get_value) ==
    [p EXCEPT !.iterator = Box("MapCol", [iterator |-> p.iterator, f |-> get_value,
                                          name |-> col, source |-> p.source,
                                          index |-> get_index(p.headers, col)])]

\* Pipeline::filter
filter(p, f) ==
    [p EXCEPT !.iterator = Box("Filter", [iterator |-> p.iterator, f |-> f,
                                          source |-> p.source, headers |-> p.headers])]

\* Pipeline::filter_col
filter_col(p, name, f) ==
    [p EXCEPT !.iterator = Box("FilterCol", [name |-> name, iterator |-> p.iterator,
                                             f |-> f, source |-> p.source,
                                             headers |-> p.headers])]

\* Pipeline::select: [ok, pipeline]
select(p, columns) ==
    LET new == from_row(columns) IN
    [ok |-> new.ok,
     pipeline |-> [p EXCEPT !.iterator = Box("Select", [iterator |-> p.iterator,
                                                        columns |-> columns,
                                                        source |-> p.source,
                                                        headers |-> p.headers]),
                            !.headers = new.headers]]

\* Pipeline::rename_col: [ok, pipeline]
rename_colAliased(p, from, to) ==
    LET r == rename(p.headers, from, to)
        top == p.iterator.it IN
    [ok |-> r.ok,
     pipeline |-> [p EXCEPT !.headers = r.headers,
                            !.iterator =
                                IF "headers" \in DOMAIN top /\ top.headers = p.headers
                                THEN Box(p.iterator.kind, [top EXCEPT !.headers = r.headers])
                                ELSE @]]
rename_col(p, from, to) ==
    LET r == rename(p.headers, from, to) IN
    [ok |-> r.ok, pipeline |-> [p EXCEPT !.headers = r.headers]]

\* the closures FnMut(usize, &str) -> &str of the model
ApplyNameFn(g, i, name) ==
    CASE g.fn = "Replace" -> IF name = g.col THEN g.val ELSE name
      [] g.fn = "All" -> g.val

\* Pipeline::rename_cols, its loop: [ok, headers]
RECURSIVE rename_cols_loop(_, _, _, _)
rename_cols_loop(new_headers, row, i, get_name) ==
    IF i >= Len(row) THEN [ok |-> TRUE, headers |-> new_headers]
    ELSE LET r == push_field(new_headers, ApplyNameFn(get_name, i, row[i + 1])) IN
         IF ~r.added THEN [ok |-> FALSE, headers |-> new_headers]
         ELSE rename_cols_loop(r.headers, row, i + 1, get_name)

\* Pipeline::rename_cols: [ok, pipeline]
rename_cols(p, get_name) ==
    LET l == rename_cols_loop(Headers_new, get_row(p.headers), 0, get_name) IN
    [ok |-> l.ok, pipeline |-> [p EXCEPT !.headers = l.headers]]

\* Pipeline::transform_into over the chain: [ok, pipeline]
transform_into_boxed(p, decls) ==
    LET hashers == get_transformers(decls)
        names == from_row([i \in 1..Len(hashers) |-> hashers[i].name]) IN
    [ok |-> names.ok,
     pipeline |-> [headers |-> names.headers,
                   source |-> p.source,
                   iterator |-> Box("TransformInto",
                                    transform_into([p EXCEPT !.iterator = @.it], decls))]]

\* Pipeline::validate
validate(p, f) ==
    [p EXCEPT !.iterator = Box("Validate", [iterator |-> p.iterator, f |-> f,
                                            source |-> p.source, headers |-> p.headers])]

\* Pipeline::validate_col
validate_col(p, name, f) ==
    [p EXCEPT !.iterator = Box("ValidateCol", [name |-> name, iterator |-> p.iterator,
                                               f |-> f, source |-> p.source,
                                               headers |-> p.headers])]

\* Pipeline::flush
flush(p, target) ==
    [p EXCEPT !.iterator = Box("Flush", Flush_new(p.iterator, target, p.source, p.headers))]

\* a method call, as data, made on the pipeline: [ok, pipeline]
NoPanic(p) == [ok |-> TRUE, pipeline |-> p]
Attach(p, c) ==
    CASE c.op = "add_col" -> NoPanic(add_col(p, c.name, c.f))
      [] c.op = "map" -> NoPanic(map(p, c.f))
      [] c.op = "map_col" -> NoPanic(map_col(p, c.name, c.f))
      [] c.op = "filter" -> NoPanic(filter(p, c.f))
      [] c.op = "filter_col" -> NoPanic(filter_col(p, c.name, c.f))
      [] c.op = "select" -> select(p, c.columns)
      [] c.op = "rename_col" -> rename_col(p, c.from, c.to)
      [] c.op = "rename_cols" -> rename_cols(p, c.f)
      [] c.op = "validate" -> NoPanic(validate(p, c.f))
      [] c.op = "validate_col" -> NoPanic(validate_col(p, c.name, c.f))
      [] c.op = "flush" -> NoPanic(flush(p, c.target))
      [] c.op = "transform_into" -> transform_into_boxed(p, c.decls)

(***************************************************************************)
(* The Headers specification: push_field and rename are called, with any   *)
(* names, on a Headers that Headers::new or a successful Headers::from_row *)
(* made.                                                                   *)
(***************************************************************************)
MaxCols == 2
ColumnNames == {"A", "B", "C"}

NoStreams ==
    /\ sources = <<>>
    /\ reducers = <<>>
    /\ chain = NoChain
    /\ chainOut = <<>>
    /\ ti = NoTransform
    /\ tiOut = <<>>
streamVars == <<sources, reducers, chain, chainOut, ti, tiOut>>

InitHeaders ==
    \E row \in SeqsUpTo(ColumnNames, MaxCols) :
        /\ from_row(row).ok
        /\ hdr = from_row(row).headers
        /\ hcall = None
        /\ NoStreams
        /\ NoPipeline

\* one call of Headers::push_field
HeadersPushField ==
    \E name \in ColumnNames :
        LET r == push_field(hdr, name) IN
        /\ hdr' = r.headers
        /\ hcall' = Some([op |-> "push_field", name |-> name, before |-> hdr,
                          added |-> r.added])
        /\ UNCHANGED <<streamVars, pipeVars>>

\* one call of Headers::rename
HeadersRename ==
    \E from \in ColumnNames, to \in ColumnNames :
        LET r == rename(hdr, from, to) IN
        /\ hdr' = r.headers
        /\ hcall' = Some([op |-> "rename", from |-> from, to |-> to, before |-> hdr,
                          ok |-> r.ok, err |-> r.err])
        /\ UNCHANGED <<streamVars, pipeVars>>

NextHeaders == HeadersPushField \/ HeadersRename

SpecHeaders == InitHeaders /\ [][NextHeaders]_vars

(***************************************************************************)
(* Properties of the Headers.                                              *)
(***************************************************************************)
NamesOf(h) == {h.row[i] : i \in 1..Len(h.row)}
LastIs(op) == hcall # None /\ hcall[1].op = op

\* C11: whatever calls were made, the names of the header row are pairwise
\* distinct, the map has exactly the row's names as its keys, and each name maps
\* to the place where it stands in the row (0-based).
C11_HeadersConsistent ==
    /\ \A i, j \in 1..Len(hdr.row) : i # j => hdr.row[i] # hdr.row[j]
    /\ DOMAIN hdr.indexes = NamesOf(hdr)
    /\ \A i \in 1..Len(hdr.row) : hdr.indexes[hdr.row[i]] = i - 1

\* a successful rename of the first of two columns
C11_Witness ==
    /\ LastIs("rename") /\ hcall[1].ok
    /\ Len(hdr.row) = 2
    /\ hcall[1].before.row[1] = hcall[1].from

\* C12: a rename that returned an error left the Headers as they were.
C12_FailedRenameIsNoOp ==
    (LastIs("rename") /\ ~hcall[1].ok) => hdr = hcall[1].before

\* a rename that failed for a present target, its source present as well
C12_Witness ==
    /\ LastIs("rename") /\ ~hcall[1].ok
    /\ hcall[1].from \in NamesOf(hcall[1].before)
    /\ hcall[1].to \in NamesOf(hcall[1].before)
    /\ hcall[1].from # hcall[1].to

\* C13 as claimed: rename succeeds exactly when from is a column and to is not;
\* it fails with MissingColumn whenever from is absent, and with DuplicateColumn
\* when from is present and to is present.
C13_RenameErrorsAsClaimed ==
    LastIs("rename") =>
        LET c == hcall[1]
            names == NamesOf(c.before) IN
        /\ c.ok <=> (c.from \in names /\ c.to \notin names)
        /\ c.from \notin names => c.err = Some(RenameError_MissingColumn)
        /\ (c.from \in names /\ c.to \in names) =>
               (c.err # None /\ c.err[1][1] = "DuplicateColumn")

\* C13 amended: rename succeeds exactly when from is a column and to is not; it
\* fails with DuplicateColumn (holding the place of to) whenever to is present,
\* from absent or not, and with MissingColumn when from and to are both absent.
C13_RenameErrors ==
    LastIs("rename") =>
        LET c == hcall[1]
            names == NamesOf(c.before) IN
        /\ c.ok <=> (c.from \in names /\ c.to \notin names)
        /\ c.ok => c.err = None
        /\ c.to \in names =>
               c.err = Some(RenameError_DuplicateColumn(c.before.indexes[c.to]))
        /\ (c.from \notin names /\ c.to \notin names) =>
               c.err = Some(RenameError_MissingColumn)

\* a rename whose source is absent and whose target is present
C13_Witness ==
    /\ LastIs("rename")
    /\ hcall[1].from \notin NamesOf(hcall[1].before)
    /\ hcall[1].to \in NamesOf(hcall[1].before)

\* C14: push_field returns false exactly when the name is a column already, and
\* then changes nothing; otherwise it returns true, the name becomes the last
\* column, mapped to the former number of columns, and every former name keeps
\* its place in the row and in the map.
C14_PushField ==
    LastIs("push_field") =>
        LET c == hcall[1]
            b == c.before IN
        /\ ~c.added <=> c.name \in NamesOf(b)
        /\ ~c.added => hdr = b
        /\ c.added =>
              /\ hdr.row = Append(b.row, c.name)
              /\ hdr.indexes[c.name] = Len(b.row)
              /\ \A n \in DOMAIN b.indexes : hdr.indexes[n] = b.indexes[n]

\* an accepted push onto two columns
C14_Witness ==
    /\ LastIs("push_field") /\ hcall[1].added
    /\ Len(hcall[1].before.row) = 2

\* C25: a rename that succeeded kept the number of columns, put to at the place
\* from had, took from out of the map, and left every other name at its place
\* in the row and at its index in the map.
C25_RenameFrame ==
    (LastIs("rename") /\ hcall[1].ok) =>
        LET c == hcall[1]
            b == c.before
            at == b.indexes[c.from] + 1 IN
        /\ Len(hdr.row) = Len(b.row)
        /\ b.row[at] = c.from
        /\ hdr.row[at] = c.to
        /\ hdr.indexes[c.to] = b.indexes[c.from]
        /\ c.from \notin DOMAIN hdr.indexes
        /\ c.from \notin NamesOf(hdr)
        /\ \A i \in 1..Len(b.row) : i # at => hdr.row[i] = b.row[i]
        /\ \A n \in DOMAIN b.indexes : n # c.from => hdr.indexes[n] = b.indexes[n]
        /\ DOMAIN hdr.indexes = (DOMAIN b.indexes \ {c.from}) \cup {c.to}

\* a successful rename of the first of the columns B,C to A, the second kept
C25_Witness ==
    /\ LastIs("rename") /\ hcall[1].ok
    /\ hcall[1].before.row = <<"B", "C">>
    /\ hdr.row = <<"A", "C">>

\* the rows get_field is asked about: up to as many fields as there can be
\* columns
FieldRows == SeqsUpTo({<<"1">>, <<"2">>}, Cardinality(ColumnNames))

\* C26: whatever calls of push_field and rename were made, get_field(row, name)
\* is the field of the row at the place where the name now stands in the header
\* row, when the name stands in the header row and the row has a field at that
\* place, and None otherwise.
C26_GetFieldFollowsHeaderRow ==
    \A row \in FieldRows : \A name \in ColumnNames \cup {"D"} :
        LET places == {i \in 1..Len(hdr.row) : hdr.row[i] = name} IN
        get_field(hdr, row, name) =
            IF places # {} /\ (CHOOSE i \in places : TRUE) <= Len(row)
            THEN Some(row[CHOOSE i \in places : TRUE])
            ELSE None

\* after a rename of the second of two columns and a push, the new name reads
\* the second field, the old name reads nothing, and the pushed name reads
\* nothing in a row of two fields
C26_Witness ==
    /\ LastIs("push_field") /\ hcall[1].added
    /\ Len(hdr.row) = Cardinality(ColumnNames)
    /\ hdr.row[1] = "A" /\ hdr.row[2] = "C" /\ hdr.row[Len(hdr.row)] = "B"
    /\ get_field(hdr, << <<"1">>, <<"2">> >>, "C") = Some(<<"2">>)
    /\ get_field(hdr, << <<"1">>, <<"2">> >>, "B") = None
    /\ get_field(hdr, << <<"1">>, <<"2">>, <<"1">> >>, "B") = Some(<<"1">>)

(***************************************************************************)
(* The stage specification: one method call attaches a stage to the        *)
(* Pipeline over two sources of the header row A,B, and a consumer pulls   *)
(* the built pipeline.  The first item goes to the first source, the rest  *)
(* to the second, whose errors the chain tags with source index 1.         *)
(***************************************************************************)
MaxStageRows == 3

StageItems ==
    {Ok(<< <<"1">>, <<"2">> >>), Ok(<< <<"x">>, <<"3">> >>), Ok(<< <<"1">> >>),
     Err(CsvError("e0"), 0)}

SinkScripts == {<<>>, <<TRUE>>, <<FALSE, TRUE>>}
TargetOf(script) == [script |-> script, log |-> <<>>]

StageCalls ==
    { [op |-> "add_col", name |-> "C", f |-> Closure("Field", "B", <<>>)],
      [op |-> "map", f |-> Closure("Swap", "A", "B")],
      [op |-> "map_col", name |-> "B", f |-> Closure("Increment", "", <<>>)],
      [op |-> "map_col", name |-> "C", f |-> Closure("Increment", "", <<>>)],
      [op |-> "filter", f |-> Closure("Equals", "B", <<"2">>)],
      [op |-> "filter_col", name |-> "B", f |-> Closure("Equals", "", <<"2">>)],
      [op |-> "filter_col", name |-> "C", f |-> Closure("Equals", "", <<"2">>)],
      [op |-> "select", columns |-> <<"B", "A">>],
      [op |-> "select", columns |-> <<"C">>],
      [op |-> "rename_col", from |-> "A", to |-> "C"],
      [op |-> "rename_cols", f |-> Closure("Replace", "A", "C")],
      [op |-> "validate", f |-> Closure("IsNumber", "A", <<>>)],
      [op |-> "validate_col", name |-> "A", f |-> Closure("IsNumber", "", <<>>)],
      [op |-> "validate_col", name |-> "C", f |-> Closure("IsNumber", "", <<>>)],
      [op |-> "transform_into",
       decls |-> <<DeclKeepUnique("A", "A"), DeclCount("Count")>>] }
        \cup {[op |-> "flush", target |-> TargetOf(script)] : script \in SinkScripts}

InitStage ==
    \E flat \in SeqsUpTo(StageItems, MaxStageRows) :
        /\ sources = [i \in 1..2 |->
                        Pipeline(from_row(HdrAB).headers,
                                 IF i = 1 THEN SubSeq(flat, 1, IF flat = <<>> THEN 0 ELSE 1)
                                 ELSE SubSeq(flat, 2, Len(flat)))]
        /\ reducers = <<>>
        /\ chain = NoChain
        /\ chainOut = <<>>
        /\ ti = NoTransform
        /\ tiOut = <<>>
        /\ NoHeaders
        /\ pl = from_pipelines_boxed(sources)
        /\ program = <<>>
        /\ plOut = <<>>

\* the iterator a stage pulls from
UpstreamOf(b) ==
    IF b.kind = "TransformInto" THEN Box("PipelinesChain", b.it.iterator)
    ELSE b.it.iterator

\* the items an iterator yielded on its way from state u0 to state u1
RECURSIVE Between(_, _)
BetweenFrom(r, u1) ==
    IF r.item = None THEN <<>> ELSE <<r.item[1]>> \o Between(r.iter, u1)
Between(u0, u1) == IF u0 = u1 THEN <<>> ELSE BetweenFrom(IterNext(u0), u1)

\* the number of calls among out that found the pipeline exhausted
IsExhausted(e) == IF e.op = "run" THEN e.ret = Ok(Unit) ELSE e.item = None
PipeNones(out) == Cardinality({i \in 1..Len(out) : IsExhausted(out[i])})

\* one method call, among calls, on the pipeline under construction
Attached(r) == r.ok /\ pl' = r.pipeline
AttachFrom(calls) ==
    \E c \in calls :
        /\ Attached(Attach(pl, c))
        /\ program' = Append(program, c)
        /\ UNCHANGED <<streamVars, headerVars, plOut>>

\* the only method call of the stage specification
StageAttach == program = <<>> /\ AttachFrom(StageCalls)

\* one pull of the consumer on the built pipeline, with what the last attached
\* stage pulled from its upstream meanwhile and the groups a TransformInto
\* holds afterwards; the consumer goes on pulling until ExtraPulls pulls have
\* returned None
Pulled(r) ==
    /\ pl' = [pl EXCEPT !.iterator = r.iter]
    /\ plOut' = Append(plOut,
           [op |-> "next",
            item |-> r.item,
            ups |-> IF pl.iterator.kind \in {"PipelinesChain", "Rows"} THEN <<>>
                    ELSE Between(UpstreamOf(pl.iterator), UpstreamOf(r.iter)),
            groups |-> IF r.iter.kind = "TransformInto" THEN r.iter.it.groups
                       ELSE <<>>])
PipePull ==
    /\ program # <<>>
    /\ PipeNones(plOut) < ExtraPulls
    /\ Pulled(IterNext(pl.iterator))
    /\ UNCHANGED <<streamVars, headerVars, program>>

NextStage == StageAttach \/ PipePull

SpecStage == InitStage /\ [][NextStage]_vars

(***************************************************************************)
(* Properties of the stages.  They are stated over what the pulls returned *)
(* and consumed (plOut), the sources as they were handed in (sources), the *)
(* method call that attached the stage (program) and the closure's and the *)
(* sink's records of the calls made to them.                               *)
(***************************************************************************)
TopKind == pl.iterator.kind
TopStage == pl.iterator.it
OneToOneKinds == {"AddCol", "MapRow", "MapCol", "Select", "Validate", "ValidateCol"}

\* the items the pulls returned, the None results left out
PipeEmitted == Concat([i \in 1..Len(plOut) |-> plOut[i].item])
\* the items the stage pulled from its upstream, over all pulls
AllUps == Concat([i \in 1..Len(plOut) |-> plOut[i].ups])
PipeDone == plOut # <<>> /\ plOut[Len(plOut)].item = None

IsPrefix(s, t) == Len(s) <= Len(t) /\ \A i \in 1..Len(s) : s[i] = t[i]
OkRowsOf(items) == LET e == SelectSeq(items, IsOk) IN [j \in 1..Len(e) |-> e[j][2]]

\* the place (0-based) of a name in a header row, None if it is not there
ColPos(names, name) ==
    IF \E i \in 1..Len(names) : names[i] = name
    THEN Some((CHOOSE i \in 1..Len(names) : names[i] = name) - 1)
    ELSE None
\* the field of a row under a name of the header row
FieldAt(names, row, name) ==
    LET pos == ColPos(names, name) IN
    IF pos = None \/ pos[1] >= Len(row) THEN None ELSE Some(row[pos[1] + 1])

\* what a Filter with predicate f over the header row names is to emit for items
RECURSIVE FilterExpected(_, _, _)
FilterExpected(f, names, items) ==
    IF items = <<>> THEN <<>>
    ELSE LET x == Head(items)
             rest == FilterExpected(f, names, Tail(items)) IN
         IF IsErr(x) THEN <<x>> \o rest
         ELSE LET field == FieldAt(names, x[2], f.col) IN
              IF field = None THEN <<Err(MissingColumn(f.col), pl.source)>> \o rest
              ELSE IF field[1] = f.val THEN <<x>> \o rest
              ELSE rest

\* C15: the Filter emits, in upstream order, the upstream's error items, the rows
\* its predicate holds for and an error with the stage's source index for each
\* row the predicate failed on, and nothing for a row the predicate is false
\* for; it pulls the upstream's items in order and returns None only once the
\* upstream is exhausted.
C15_FilterOutput ==
    TopKind = "Filter" =>
        /\ IsPrefix(AllUps, Delivered)
        /\ PipeEmitted = FilterExpected(program[1].f, HdrAB, AllUps)
        /\ PipeDone => AllUps = Delivered

\* a row the predicate is false for, followed by a row it holds for or fails on
C15_Witness ==
    /\ TopKind = "Filter"
    /\ PipeDone
    /\ Len(PipeEmitted) = 2
    /\ Len(Delivered) = 3
    /\ IsOk(Delivered[1]) /\ Delivered[1] # PipeEmitted[1]
    /\ \E j \in 1..2 : IsErr(PipeEmitted[j]) /\ PipeEmitted[j][2][1] = "MissingColumn"

\* the arguments the closure of the last attached stage was called with
ClosureCalls == IF "f" \in DOMAIN TopStage THEN TopStage.f.calls ELSE <<>>
\* the rows the sink of a Flush was asked to write
SinkLog == IF TopKind = "Flush" THEN TopStage.target.log ELSE <<>>
WrittenRows ==
    LET w == SelectSeq(SinkLog, LAMBDA c : c.call = "write_row") IN
    [j \in 1..Len(w) |-> w[j].arg]
GroupsBefore(i) == IF i = 1 THEN <<>> ELSE plOut[i - 1].groups

\* C16: an error item that the last attached stage pulls from its upstream is
\* what that pull returns, unchanged, and nothing is pulled after it; the
\* closure is called, and the sink is asked to write, only for Ok rows; a pull
\* of a TransformInto that met only an error leaves the groups as they were.
C16_UpstreamErrorsForwarded ==
    TopKind # "PipelinesChain" =>
        /\ \A i \in 1..Len(plOut) :
              LET ups == plOut[i].ups IN
              /\ \A j \in 1..Len(ups) :
                    IsErr(ups[j]) => (j = Len(ups) /\ plOut[i].item = Some(ups[j]))
              /\ (Len(ups) = 1 /\ IsErr(ups[1])) => plOut[i].groups = GroupsBefore(i)
        /\ Len(ClosureCalls) <= Len(OkRowsOf(AllUps))
        /\ TopKind \in {"AddCol", "MapRow", "Filter", "Validate"} =>
              ClosureCalls = OkRowsOf(AllUps)
        /\ TopKind = "Flush" => IsPrefix(WrittenRows, OkRowsOf(AllUps))

\* an error of the second source forwarded, and a row handled after it
C16_Witness ==
    /\ TopKind \in {"Validate", "Flush", "TransformInto"}
    /\ \E i \in 1..Len(plOut) :
          /\ plOut[i].ups # <<>>
          /\ plOut[i].item = Some(Err(CsvError("e0"), 1))
          /\ \E k \in (i + 1)..Len(plOut) : plOut[k].item # None /\ IsOk(plOut[k].item[1])

\* what the one-to-one stage attached by the call c to a pipeline of header row
\* names is to emit for the upstream row row
StageImage(c, names, row) ==
    LET Lift(result, out) == IF IsOk(result) THEN Ok(out) ELSE Err(result[2], pl.source)
    IN
    CASE c.op = "add_col" ->
            LET all == IF ColPos(names, c.name) = None THEN Append(names, c.name)
                       ELSE names
                r == ApplyRowFn(c.f, from_row(all).headers, row) IN
            Lift(r, IF IsOk(r) THEN Append(row, r[2]) ELSE <<>>)
      [] c.op = "map" ->
            LET r == ApplyRowFn(c.f, from_row(names).headers, row) IN
            Lift(r, r[2])
      [] c.op = "validate" ->
            Lift(ApplyRowFn(c.f, from_row(names).headers, row), row)
      [] c.op = "map_col" ->
            LET field == FieldAt(names, row, c.name) IN
            IF field = None THEN Err(MissingColumn(c.name), pl.source)
            ELSE LET r == ApplyFieldFn(c.f, field[1]) IN
                 Lift(r, [row EXCEPT ![ColPos(names, c.name)[1] + 1] = r[2]])
      [] c.op = "validate_col" ->
            LET field == FieldAt(names, row, c.name) IN
            IF field = None THEN Err(MissingColumn(c.name), pl.source)
            ELSE Lift(ApplyFieldFn(c.f, field[1]), row)
      [] c.op = "select" ->
            LET missing == {i \in 1..Len(c.columns) :
                               FieldAt(names, row, c.columns[i]) = None} IN
            IF missing # {}
            THEN Err(MissingColumn(c.columns[CHOOSE i \in missing :
                                                 \A j \in missing : i <= j]),
                     pl.source)
            ELSE Ok([i \in 1..Len(c.columns) |-> FieldAt(names, row, c.columns[i])[1]])

\* C17: a one-to-one stage pulls exactly one upstream item on each pull and
\* yields an item exactly when the upstream does: the k-th pull yields the
\* upstream's k-th item if that is an error, and else what the stage makes of
\* the k-th row alone, whatever happened to the rows before it: the row it is to
\* yield (the row itself, for Validate and ValidateCol), or the stage's error
\* with the stage's source index.
C17_OneToOne ==
    TopKind \in OneToOneKinds =>
        \A k \in 1..Len(plOut) :
            IF k <= Len(Delivered)
            THEN /\ plOut[k].ups = <<Delivered[k]>>
                 /\ plOut[k].item =
                        Some(IF IsErr(Delivered[k]) THEN Delivered[k]
                             ELSE StageImage(program[1], HdrAB, Delivered[k][2]))
            ELSE plOut[k].ups = <<>> /\ plOut[k].item = None

\* a row that fails validation, and a later row that passes and is forwarded
C17_Witness ==
    /\ TopKind \in {"Validate", "ValidateCol"}
    /\ PipeDone
    /\ \E k \in 1..Len(plOut) :
          /\ k <= Len(Delivered) /\ IsOk(Delivered[k])
          /\ plOut[k].item # None /\ IsErr(plOut[k].item[1])
          /\ plOut[k].item[1][3] = pl.source
          /\ \E n \in (k + 1)..Len(Delivered) :
                IsOk(Delivered[n]) /\ plOut[n].item = Some(Delivered[n])

\* C18 as claimed: once a Flush was pulled, write_headers was called exactly
\* once and before any write_row, write_row was called once for each Ok row
\* pulled from the upstream, in order, and each failed sink call was emitted as
\* an error with the stage's source index.
C18_SinkCalledOncePerRow ==
    (TopKind = "Flush" /\ plOut # <<>>) =>
        /\ Cardinality({i \in 1..Len(SinkLog) : SinkLog[i].call = "write_headers"}) = 1
        /\ SinkLog[1].call = "write_headers"
        /\ WrittenRows = OkRowsOf(AllUps)
        /\ Len(SelectSeq(PipeEmitted, LAMBDA x : x = Err(SinkError, pl.source)))
               = Len(SelectSeq(SinkLog, LAMBDA c : ~c.ok))

\* C21: a Select emits, for each Ok upstream row, a row with one field per
\* requested column, the j-th being the upstream row's field at the place the
\* j-th requested name has in the upstream header row; when a requested name is
\* not in the upstream header row, or the row has no field at its place, it
\* emits MissingColumn with the first such name and the stage's source index
\* instead; and the Headers of the pipeline after select are the requested
\* names in the requested order, each mapped to its place.
C21_SelectOutput ==
    TopKind = "Select" =>
        LET cols == program[1].columns IN
        /\ get_row(pl.headers) = cols
        /\ DOMAIN pl.headers.indexes = {cols[j] : j \in 1..Len(cols)}
        /\ \A j \in 1..Len(cols) : pl.headers.indexes[cols[j]] = j - 1
        /\ \A k \in 1..Len(plOut) :
              (k <= Len(Delivered) /\ IsOk(Delivered[k])) =>
                 LET row == Delivered[k][2]
                     absent == {j \in 1..Len(cols) :
                                   \/ ColPos(HdrAB, cols[j]) = None
                                   \/ ColPos(HdrAB, cols[j])[1] >= Len(row)} IN
                 IF absent = {}
                 THEN /\ plOut[k].item # None /\ IsOk(plOut[k].item[1])
                      /\ Len(plOut[k].item[1][2]) = Len(cols)
                      /\ \A j \in 1..Len(cols) :
                            plOut[k].item[1][2][j] = row[ColPos(HdrAB, cols[j])[1] + 1]
                 ELSE plOut[k].item =
                          Some(Err(MissingColumn(cols[CHOOSE j \in absent :
                                                          \A i \in absent : j <= i]),
                                   pl.source))

\* a select that reorders the columns has emitted a reordered row, and then an
\* error for a row that is too short
C21_Witness ==
    /\ TopKind = "Select"
    /\ program[1].columns = <<"B", "A">>
    /\ \E k \in 1..Len(plOut) :
          /\ plOut[k].item = Some(Ok(<< <<"2">>, <<"1">> >>))
          /\ \E n \in (k + 1)..Len(plOut) :
                plOut[n].item = Some(Err(MissingColumn("B"), pl.source))

(***************************************************************************)
(* The grouping specification: a consumer pulls a TransformInto built over *)
(* the chain of two sources with the header row Name,Score, whose rows     *)
(* all fold; the reducers declare no key column, one or two.               *)
(***************************************************************************)
KeyItems == {Ok(<<k, v>>) : k \in KeyFields, v \in {<<"1">>, <<"2">>}}

KeyConfigs ==
    { <<DeclCount("Count"), DeclSum("Total", "Score", 0)>>,
      <<DeclKeepUnique("Name", "Name"), DeclSum("Total", "Score", 0),
        DeclReduce("All", "Score", "Concat", <<>>)>>,
      <<DeclKeepUnique("Name", "Name"), DeclCount("Count"),
        DeclKeepUnique("Tag", "Score")>>,
      <<DeclReduce("Names", "Name", "Concat", <<>>), DeclKeepUnique("Tag", "Score")>> }

InitKeys ==
    \E flat \in SeqsUpTo(KeyItems, MaxRows) :
      \E cuts \in CutsOf(flat, 2) :
        \E decls \in KeyConfigs :
          /\ sources = [i \in 1..2 |->
                          Pipeline(from_row(HdrNS).headers, Pieces(flat, 2, cuts)[i])]
          /\ reducers = decls
          /\ ti = transform_into(from_pipelines(sources), decls)
          /\ tiOut = <<>>
          /\ chain = NoChain
          /\ chainOut = <<>>
          /\ NoHeaders
          /\ NoPipeline

NextKeys == GroupPull

SpecKeys == InitKeys /\ [][NextKeys]_vars

\* the key columns: the from_col of the KeepUnique reducers, in declared order
KeyCols ==
    LET ku == SelectSeq(reducers, LAMBDA d : d.kind = "KeepUnique") IN
    [i \in 1..Len(ku) |-> ku[i].from_col]
\* the values a row has in the key columns
KeyOfRow(row) == [i \in 1..Len(KeyCols) |-> row[ColPos(HdrNS, KeyCols[i])[1] + 1]]
\* the rows of items that agree with row in every key column
SameKeyRows(items, row) ==
    LET rows == [i \in 1..Len(items) |-> items[i][2]] IN
    SelectSeq(rows, LAMBDA x : KeyOfRow(x) = KeyOfRow(row))
\* the rows of items that no earlier row agrees with in every key column
FirstOfKey(items) ==
    LET rows == [i \in 1..Len(items) |-> items[i][2]]
        first == {i \in 1..Len(rows) :
                     \A j \in 1..(i - 1) : KeyOfRow(rows[j]) # KeyOfRow(rows[i])}
        nth[n \in 0..Len(rows)] ==
            IF n = 0 THEN <<>>
            ELSE IF n \in first THEN Append(nth[n - 1], rows[n]) ELSE nth[n - 1] IN
    nth[Len(rows)]
\* what the reducer declared by d makes of the rows of one group
ReducedValue(d, rows) ==
    LET col == IF d.kind = "Count" THEN 0 ELSE ColPos(HdrNS, d.from_col)[1] + 1
        sumOf[n \in 0..Len(rows)] ==
            IF n = 0 THEN 0 ELSE sumOf[n - 1] + ParseInt(rows[n][col])[1] IN
    CASE d.kind = "KeepUnique" -> rows[Len(rows)][col]
      [] d.kind = "Count" -> IntToString(Len(rows))
      [] d.kind = "Sum" -> IntToString(d.init + sumOf[Len(rows)])
      [] d.kind = "Reduce" -> d.init \o Concat([n \in 1..Len(rows) |-> rows[n][col]])

\* C23: the groups are the classes of the rows that agree in the from_col of
\* every KeepUnique reducer: the emitted rows are, in the order in which the
\* classes were first seen, one row per class, each reducer's value being what
\* it makes of the rows of that class alone, and all of them are emitted before
\* a pull returns None; the columns that only Sum, Count or Reduce read do not
\* split a class, and with no KeepUnique reducer there is one group for all
\* rows.
C23_GroupsByKeyColumns ==
    LET firsts == FirstOfKey(Delivered) IN
    /\ Len(GroupOkRows) + Len(ti.groups) <= Len(firsts)
    /\ tiOut # <<>> => Len(GroupOkRows) + Len(ti.groups) = Len(firsts)
    /\ KeyCols = <<>> => Len(firsts) <= 1
    /\ \A j \in 1..Len(GroupOkRows) :
          GroupOkRows[j] =
              [i \in 1..Len(reducers) |->
                  ReducedValue(reducers[i], SameKeyRows(Delivered, firsts[j]))]

\* a group of two rows that differ in a column only a Sum and a Reduce read,
\* next to a group of another key
C23_Witness ==
    /\ Len(reducers) = 3 /\ reducers[2].kind = "Sum" /\ reducers[3].kind = "Reduce"
    /\ Len(Delivered) = 3
    /\ Delivered[1][2] = << <<"A">>, <<"1">> >>
    /\ Delivered[2][2] = << <<"B">>, <<"1">> >>
    /\ Delivered[3][2] = << <<"A">>, <<"2">> >>
    /\ GroupDone
    /\ GroupOkRows = << << <<"A">>, <<"3">>, <<"1", "2">> >>,
                        << <<"B">>, <<"1">>, <<"1">> >> >>

(***************************************************************************)
(* The terminal specification: a pipeline is built by one of a few         *)
(* programs over two sources, and a consumer calls run, next_error and     *)
(* next on it in any order.                                                *)
(***************************************************************************)
RunItems ==
    {Ok(<< <<"1">>, <<"2">> >>), Ok(<< <<"x">>, <<"3">> >>), Err(CsvError("e0"), 0)}

RunPrograms ==
    { <<[op |-> "flush", target |-> TargetOf(<<>>)]>>,
      <<[op |-> "validate", f |-> Closure("IsNumber", "A", <<>>)],
        [op |-> "flush", target |-> TargetOf(<<FALSE, TRUE>>)]>>,
      <<[op |-> "validate_col", name |-> "A", f |-> Closure("IsNumber", "", <<>>)]>> }

\* the pipeline after the method calls of prog: [ok, pipeline]
RECURSIVE Build(_, _)
BuildRest(r, prog) == IF ~r.ok THEN r ELSE Build(r.pipeline, prog)
Build(p, prog) ==
    IF prog = <<>> THEN NoPanic(p) ELSE BuildRest(Attach(p, Head(prog)), Tail(prog))

Built(r) == r.ok /\ pl = r.pipeline
InitRun ==
    \E flat \in SeqsUpTo(RunItems, MaxStageRows), prog \in RunPrograms :
        /\ sources = [i \in 1..2 |->
                        Pipeline(from_row(HdrAB).headers,
                                 IF i = 1 THEN SubSeq(flat, 1, IF flat = <<>> THEN 0 ELSE 1)
                                 ELSE SubSeq(flat, 2, Len(flat)))]
        /\ reducers = <<>>
        /\ chain = NoChain
        /\ chainOut = <<>>
        /\ ti = NoTransform
        /\ tiOut = <<>>
        /\ NoHeaders
        /\ Built(Build(from_pipelines_boxed(sources), prog))
        /\ program = prog
        /\ plOut = <<>>

\* one call of PipelineIter::run, with the items it pulled
Ran(r) ==
    /\ pl' = r.iter
    /\ plOut' = Append(plOut, [op |-> "run", ret |-> r.ret,
                               items |-> Between(pl.iterator, r.iter.iterator)])
PipeRun ==
    /\ program # <<>>
    /\ PipeNones(plOut) < ExtraPulls
    /\ Ran(run(pl))
    /\ UNCHANGED <<streamVars, headerVars, program>>

\* one call of PipelineIter::next_error, with the items it pulled
SoughtError(r) ==
    /\ pl' = r.iter
    /\ plOut' = Append(plOut, [op |-> "next_error", item |-> r.item,
                               items |-> Between(pl.iterator, r.iter.iterator)])
PipeNextError ==
    /\ program # <<>>
    /\ PipeNones(plOut) < ExtraPulls
    /\ SoughtError(next_error(pl))
    /\ UNCHANGED <<streamVars, headerVars, program>>

NextRun == PipeRun \/ PipeNextError \/ PipePull

SpecRun == InitRun /\ [][NextRun]_vars

(***************************************************************************)
(* Properties of the terminal operations.                                  *)
(***************************************************************************)
\* everything an iterator yields when it is pulled until it returns None
RECURSIVE AllItems(_)
AllItemsFrom(r) == IF r.item = None THEN <<>> ELSE <<r.item[1]>> \o AllItems(r.iter)
AllItems(b) == AllItemsFrom(IterNext(b))

\* the stream of the pipeline as it was built
Stream == AllItems(Build(from_pipelines_boxed(sources), program).pipeline.iterator)

\* the items the first i calls pulled from the pipeline
ItemsOf(e) == IF e.op = "next" THEN e.item ELSE e.items
PulledUpTo(i) == Concat([k \in 1..i |-> ItemsOf(plOut[k])])

\* the place of the first error item of items, 0 if there is none
FirstError(items) ==
    IF \E n \in 1..Len(items) : IsErr(items[n])
    THEN CHOOSE n \in 1..Len(items) :
             IsErr(items[n]) /\ \A m \in 1..(n - 1) : IsOk(items[m])
    ELSE 0

\* the rows the sink of a Flush has written without failing
SinkWritten ==
    LET w == SelectSeq(SinkLog, LAMBDA c : c.call = "write_row" /\ c.ok) IN
    [j \in 1..Len(w) |-> w[j].arg]

\* C19: the calls pull the items of the stream in order.  A call of run pulls
\* up to and including the first error item left in the stream and returns it,
\* or pulls all that is left and returns Ok if no error is left; a call of
\* next_error does the same, returning Some(error) or None; the pipeline can be
\* called again afterwards, and no row beyond the last item pulled was written
\* to the sink.
C19_RunAndNextError ==
    /\ IsPrefix(PulledUpTo(Len(plOut)), Stream)
    /\ \A i \in 1..Len(plOut) :
          plOut[i].op \in {"run", "next_error"} =>
              LET rest == SubSeq(Stream, Len(PulledUpTo(i - 1)) + 1, Len(Stream))
                  n == FirstError(rest)
              IN IF n > 0
                 THEN /\ plOut[i].items = SubSeq(rest, 1, n)
                      /\ plOut[i].op = "run" => plOut[i].ret = rest[n]
                      /\ plOut[i].op = "next_error" => plOut[i].item = Some(rest[n])
                 ELSE /\ plOut[i].items = rest
                      /\ plOut[i].op = "run" => plOut[i].ret = Ok(Unit)
                      /\ plOut[i].op = "next_error" => plOut[i].item = None
    /\ TopKind = "Flush" => SinkWritten = OkRowsOf(PulledUpTo(Len(plOut)))

\* run stops at an error that follows a row and has an error after it, which
\* next_error returns before it returns None
C19_Witness ==
    /\ TopKind = "Flush"
    /\ Len(plOut) = 3
    /\ plOut[1].op = "run" /\ IsErr(plOut[1].ret) /\ Len(plOut[1].items) = 2
    /\ plOut[2].op = "next_error" /\ plOut[2].item # None
    /\ plOut[3].op = "next_error" /\ plOut[3].item = None
    /\ Len(Stream) = 3

(***************************************************************************)
(* The build specification: up to MaxStages method calls are made on the   *)
(* Pipeline over two given sources, among them calls that change the       *)
(* Headers, and a consumer then pulls the built pipeline.                  *)
(***************************************************************************)
MaxStages == 3

BuildSources ==
    << Pipeline(from_row(HdrAB).headers,
                <<Ok(<< <<"1">>, <<"2">> >>), Ok(<< <<"x">>, <<"3">> >>)>>),
       Pipeline(from_row(HdrAB).headers,
                <<Err(CsvError("e0"), 0), Ok(<< <<"1">> >>)>>) >>

BuildCalls ==
    { [op |-> "add_col", name |-> "C", f |-> Closure("Field", "A", <<>>)],
      [op |-> "map_col", name |-> "A", f |-> Closure("Increment", "", <<>>)],
      [op |-> "map_col", name |-> "C", f |-> Closure("Increment", "", <<>>)],
      [op |-> "filter", f |-> Closure("Equals", "A", <<"1">>)],
      [op |-> "select", columns |-> <<"B", "A">>],
      [op |-> "select", columns |-> <<"C">>],
      [op |-> "rename_col", from |-> "A", to |-> "C"],
      [op |-> "rename_col", from |-> "B", to |-> "A"],
      [op |-> "rename_cols", f |-> Closure("Replace", "A", "C")],
      [op |-> "validate_col", name |-> "A", f |-> Closure("IsNumber", "", <<>>)],
      [op |-> "validate_col", name |-> "C", f |-> Closure("IsNumber", "", <<>>)] }

InitBuild ==
    /\ sources = BuildSources
    /\ reducers = <<>>
    /\ chain = NoChain
    /\ chainOut = <<>>
    /\ ti = NoTransform
    /\ tiOut = <<>>
    /\ NoHeaders
    /\ pl = from_pipelines_boxed(sources)
    /\ program = <<>>
    /\ plOut = <<>>

\* one more method call, as long as the pipeline was not built and pulled
BuildAttach ==
    /\ Len(program) < MaxStages
    /\ plOut = <<>>
    /\ AttachFrom(BuildCalls)

NextBuild == BuildAttach \/ PipePull

SpecBuild == InitBuild /\ [][NextBuild]_vars

(***************************************************************************)
(* Properties of the build.  The header row a call leaves is worked out on *)
(* the row of names alone, without the Headers of the model.               *)
(***************************************************************************)
\* the header row after the call c on a pipeline whose header row is names
NamesAfterCall(names, c) ==
    CASE c.op = "add_col" ->
            IF ColPos(names, c.name) = None THEN Append(names, c.name) ELSE names
      [] c.op = "select" -> c.columns
      [] c.op = "rename_col" ->
            [i \in 1..Len(names) |-> IF names[i] = c.from THEN c.to ELSE names[i]]
      [] c.op = "rename_cols" ->
            [i \in 1..Len(names) |-> ApplyNameFn(c.f, i - 1, names[i])]
      [] OTHER -> names

RECURSIVE NamesAfter(_, _)
NamesAfter(names, prog) ==
    IF prog = <<>> THEN names
    ELSE NamesAfter(NamesAfterCall(names, Head(prog)), Tail(prog))

\* the header row of the pipeline when the k-th call of the program was made
NamesBefore(k) == NamesAfter(HdrAB, SubSeq(program, 1, k - 1))

\* the calls of the program that attach a stage, by their place in the program
AttachesStage(c) == c.op \notin {"rename_col", "rename_cols"}
RECURSIVE StageCallsFrom(_)
StageCallsFrom(k) ==
    IF k > Len(program) THEN <<>>
    ELSE (IF AttachesStage(program[k]) THEN <<k>> ELSE <<>>) \o StageCallsFrom(k + 1)

\* the stages of an iterator, the first attached first
RECURSIVE StagesOf(_)
StagesOf(b) ==
    IF b.kind = "PipelinesChain" THEN <<>> ELSE Append(StagesOf(UpstreamOf(b)), b)

\* the header row the stage attached by the k-th call resolves names against:
\* add_col pushes its column before the stage is made
StageNames(k) ==
    IF program[k].op = "add_col" THEN NamesAfterCall(NamesBefore(k), program[k])
    ELSE NamesBefore(k)

\* the stage resolves every name as the header row names does
ResolvesAs(stage, names) ==
    IF stage.kind = "MapCol" THEN stage.it.index = ColPos(names, stage.it.name)
    ELSE \A n \in ColumnNames : get_index(stage.it.headers, n) = ColPos(names, n)

\* what the pipeline built by prog over the header row names is to yield for the
\* items of its sources
RECURSIVE ExpectedStream(_, _, _)
ExpectedStream(names, prog, items) ==
    IF prog = <<>> THEN items
    ELSE LET c == Head(prog)
             out == IF ~AttachesStage(c) THEN items
                    ELSE IF c.op = "filter" THEN FilterExpected(c.f, names, items)
                    ELSE [i \in 1..Len(items) |->
                             IF IsErr(items[i]) THEN items[i]
                             ELSE StageImage(c, names, items[i][2])]
         IN ExpectedStream(NamesAfterCall(names, c), Tail(prog), out)

\* C20: however many calls followed it, each attached stage resolves every
\* name to the place the name had in the header row when the stage was
\* attached; a stage attached right after rename_col(from, to) resolves to to
\* the place from had; and the built pipeline yields what the stages make of
\* the rows when each looks its columns up in the header row of its attachment.
C20_StagesKeepTheirHeaders ==
    LET stages == StagesOf(pl.iterator)
        calls == StageCallsFrom(1) IN
    /\ Len(stages) = Len(calls)
    /\ \A j \in 1..Len(stages) :
          LET k == calls[j] IN
          /\ ResolvesAs(stages[j], StageNames(k))
          /\ (k > 1 /\ program[k - 1].op = "rename_col") =>
                LET place == ColPos(NamesBefore(k - 1), program[k - 1].from) IN
                IF stages[j].kind = "MapCol"
                THEN stages[j].it.name = program[k - 1].to => stages[j].it.index = place
                ELSE get_index(stages[j].it.headers, program[k - 1].to) = place
    /\ IsPrefix(PipeEmitted, ExpectedStream(HdrAB, program, Delivered))
    /\ PipeDone => PipeEmitted = ExpectedStream(HdrAB, program, Delivered)

\* a column validated under its old name, renamed, then selected under its new
\* name, and the rows pulled to the end
C20_Witness ==
    /\ Len(program) = 3
    /\ program[1].op = "validate_col" /\ program[1].name = "A"
    /\ program[2].op = "rename_col" /\ program[2].from = "A" /\ program[2].to = "C"
    /\ program[3].op = "select" /\ program[3].columns = <<"C">>
    /\ PipeDone
    /\ \E j \in 1..Len(PipeEmitted) : PipeEmitted[j] = Ok(<< <<"1">> >>)
    /\ \E j \in 1..Len(PipeEmitted) :
          IsErr(PipeEmitted[j]) /\ PipeEmitted[j][2][1] = "InvalidField"

\* C27 as claimed: after add_col calls alone, with any names, a row of the
\* source that has as many fields as the header row is emitted with one field
\* appended by each call, its own fields unchanged; it has as many fields as
\* the Headers of the pipeline has names, and get_field on these Headers gives,
\* under the name of each call, the field that call's stage appended.
C27_AddColKeepsArity ==
    (program # <<>> /\ \A j \in 1..Len(program) : program[j].op = "add_col") =>
        \A k \in 1..Len(plOut) :
            (/\ k <= Len(Delivered) /\ IsOk(Delivered[k])
             /\ Len(Delivered[k][2]) = Len(HdrAB)
             /\ plOut[k].item # None /\ IsOk(plOut[k].item[1])) =>
                LET row == plOut[k].item[1][2] IN
                /\ Len(row) = Len(HdrAB) + Len(program)
                /\ SubSeq(row, 1, Len(HdrAB)) = Delivered[k][2]
                /\ Len(row) = Len(get_row(pl.headers))
                /\ \A j \in 1..Len(program) :
                      get_field(pl.headers, row, program[j].name)
                          = Some(row[Len(HdrAB) + j])

\* C28: when map_col(col, f) is the one stage of the pipeline, whatever renames
\* came before and after it, each Ok row of the source is emitted with the same
\* number of fields, the field at the place col had in the header row when
\* map_col was called replaced by what f returned for it and every other field
\* unchanged (or as f's error with the stage's source index when f failed); a
\* row is emitted as MissingColumn(col) with the stage's source index when col
\* was not in that header row or the row has no field at that place, and f was
\* called for no such row.
C28_MapColFrame ==
    LET calls == StageCallsFrom(1) IN
    (Len(calls) = 1 /\ program[calls[1]].op = "map_col") =>
        LET c == program[calls[1]]
            pos == ColPos(NamesBefore(calls[1]), c.name)
            HasField(item) == IsOk(item) /\ pos # None /\ pos[1] < Len(item[2])
            pulled == SubSeq(Delivered, 1,
                             IF Len(plOut) < Len(Delivered) THEN Len(plOut)
                             ELSE Len(Delivered))
            given == SelectSeq(pulled, HasField) IN
        /\ ClosureCalls = [n \in 1..Len(given) |-> given[n][2][pos[1] + 1]]
        /\ \A n \in 1..Len(pulled) :
              IsOk(pulled[n]) =>
                  LET row == pulled[n][2] IN
                  IF ~HasField(pulled[n])
                  THEN plOut[n].item = Some(Err(MissingColumn(c.name), pl.source))
                  ELSE LET res == ApplyFieldFn(c.f, row[pos[1] + 1]) IN
                       IF IsErr(res)
                       THEN plOut[n].item = Some(Err(res[2], pl.source))
                       ELSE /\ plOut[n].item # None /\ IsOk(plOut[n].item[1])
                            /\ Len(plOut[n].item[1][2]) = Len(row)
                            /\ \A i \in 1..Len(row) :
                                  plOut[n].item[1][2][i] =
                                      IF i = pos[1] + 1 THEN res[2] ELSE row[i]

\* map_col("A") called after the columns were renamed so that B became A: the
\* second field was mapped, and the row of one field gave MissingColumn
C28_Witness ==
    /\ Len(program) = MaxStages
    /\ PipeDone
    /\ program[MaxStages].op = "map_col" /\ program[MaxStages].name = "A"
    /\ program[MaxStages - 1].op = "rename_col" /\ program[MaxStages - 1].to = "A"
    /\ PipeEmitted[1] = Ok(<< <<"1">>, <<"3">> >>)
    /\ PipeEmitted[Len(PipeEmitted)] = Err(MissingColumn("A"), pl.source)

(***************************************************************************)
(* The construction specification: Pipeline::from_rows is called with      *)
(* records whose header row may repeat names, and a consumer pulls the     *)
(* pipeline when there is one.  The call is kept in hcall; pl is the       *)
(* pipeline returned, and stays as it was when the call fails.             *)
(***************************************************************************)
MaxHeaderLen == 4

RecordRows == {<< <<"1">>, <<"2">> >>, << <<"x">> >>}
RecordSets ==
    {<<names>> \o rows : names \in SeqsUpTo(ColumnNames, MaxHeaderLen),
                         rows \in SeqsUpTo(RecordRows, MaxCols)}

InitRows ==
    /\ NoStreams
    /\ NoHeaders
    /\ NoPipeline

\* the call of Pipeline::from_rows, made where no pipeline was made yet; the
\* pipeline it returns is pulled, run and built upon like any other
Constructed(records, r) ==
    /\ hcall' = Some([op |-> "from_rows", records |-> records, ok |-> r.ok,
                      err |-> r.err])
    /\ pl' = IF r.ok THEN r.pipeline[1] ELSE pl
    /\ program' = IF r.ok THEN <<[op |-> "from_rows"]>> ELSE program
    /\ UNCHANGED <<streamVars, hdr, plOut>>
RowsConstruct ==
    /\ hcall = None
    /\ NoStreams
    /\ NoPipeline
    /\ \E records \in RecordSets : Constructed(records, from_rows(records))

NextRows == RowsConstruct \/ PipePull

SpecRows == InitRows /\ [][NextRows]_vars

\* C29: Headers::from_row succeeds exactly when the names of the row are
\* pairwise distinct; the Headers it makes has the row as its header row and
\* maps each name to its place; when it fails it returns the name at the first
\* place that repeats an earlier one, and Pipeline::from_rows then returns
\* DuplicateColumn with that name at source 0 and no pipeline is pulled;
\* otherwise the pipeline yields the records after the header row.
C29_FromRowRejectsDuplicates ==
    hcall # None =>
        LET c == hcall[1]
            names == Head(c.records)
            repeats == {i \in 1..Len(names) : \E j \in 1..(i - 1) : names[j] = names[i]}
            first == CHOOSE i \in repeats : \A j \in repeats : i <= j
            rows == Tail(c.records) IN
        /\ c.ok <=> repeats = {}
        /\ from_row(names).ok <=> repeats = {}
        /\ c.ok =>
              /\ from_row(names).dup = None
              /\ c.err = None
              /\ get_row(pl.headers) = names
              /\ DOMAIN pl.headers.indexes = {names[i] : i \in 1..Len(names)}
              /\ \A i \in 1..Len(names) : pl.headers.indexes[names[i]] = i - 1
              /\ IsPrefix(PipeEmitted, [i \in 1..Len(rows) |-> Ok(rows[i])])
              /\ PipeDone => Len(PipeEmitted) = Len(rows)
        /\ ~c.ok =>
              /\ from_row(names).dup = Some(names[first])
              /\ c.err = Some(Err(DuplicateColumn(names[first]), 0))
              /\ plOut = <<>>

\* the header row A,B,B,A was refused for its name B
C29_Witness ==
    /\ hcall # None /\ ~hcall[1].ok
    /\ Head(hcall[1].records) = <<"A", "B", "B", "A">>
    /\ hcall[1].err = Some(Err(DuplicateColumn("B"), 0))

(***************************************************************************)
(* The whole model: a chain pulled directly, a TransformInto pulled over a *)
(* chain, calls on a Headers, a pipeline with stages built, pulled and     *)
(* run, or a pipeline made from records.                                   *)
(***************************************************************************)
Init ==
    \/ InitChain \/ InitGroup \/ InitKeys
    \/ InitHeaders \/ InitStage \/ InitRun \/ InitBuild \/ InitRows

Next ==
    \/ ChainPull \/ GroupPull
    \/ HeadersPushField \/ HeadersRename
    \/ StageAttach \/ PipePull
    \/ PipeRun \/ PipeNextError
    \/ BuildAttach
    \/ RowsConstruct

Spec == Init /\ [][Next]_vars

=============================================================================
